---------------------------- MODULE Spec2Model ----------------------------
(***************************************************************************)
(* Dispatch core of the scheduling bot: BalancedRateLimiter                *)
(* (core/rate_limiter.py), SmartRetrySystem (core/retry_system.py),        *)
(* ParallelSender.send_post_to_channel (core/sender.py) and the grouping   *)
(* loop of SchedulerCore.process_due_posts (core/scheduler_core.py).       *)
(*                                                                         *)
(* Time is counted in milliseconds.  Tokens of the bucket are counted in   *)
(* 1/10000 of a token and the flood multiplier in tenths, so that the      *)
(* refill  elapsed * global_rate * flood_multiplier  is exact on integers. *)
(***************************************************************************)
EXTENDS Integers, Sequences, FiniteSets, TLC

(***************************************************************************)
(* Program constants.                                                      *)
(***************************************************************************)
global_rate == 25
burst_size == 20
PerChannelLimit == 20
skip_duration_minutes == 5
GroupWindowSec == 5
lookahead_seconds == 30
FetchLimit == 200
TokenUnit == 10000
MsPerSec == 1000
MultUnit == 10

max_tokens == global_rate * TokenUnit
WindowMs == 60 * MsPerSec
BurstDelayMs == (4 * MsPerSec) \div 100
SkipDurationMs == skip_duration_minutes * 60 * MsPerSec

(***************************************************************************)
(* Bounds of the model.                                                    *)
(***************************************************************************)
MaxRateItems == 21
MaxRateBatches == 2
MaxRateEvents == 1
MaxEarly == 1
MaxEvents == 4
MaxPosts == 3
MaxPolls == 1
EarlyWakeMs == 1

Dests == {"d1", "d2"}
channel_ids == <<"d1", "d2">>
NoDest == "none"
NoTime == -1

Min(a, b) == IF a < b THEN a ELSE b
Max(a, b) == IF a > b THEN a ELSE b
CeilDiv(a, b) == (a + b - 1) \div b

VARIABLES
    clock,              \* time.time() / datetime.utcnow(), in ms
    rate_limiter,       \* the BalancedRateLimiter object
    retry_system,       \* the SmartRetrySystem object
    admin_notified,     \* ParallelSender.admin_notified (its keys)
    lock,               \* holder of rate_limiter.lock, or NoDest
    lock_waiters,       \* FIFO of the coroutines suspended on the lock
    pc,                 \* position of the send coroutine of each destination
    acquire_now,        \* the local `now` of the acquire that holds the lock
    wake,               \* time the sleeping lock holder asked to be woken at
    send_log,           \* per destination: start times of its transport sends
    notices,            \* per destination: notices handed to create_task
    last_skip,          \* the last should_skip call of a send: its input and what it returned
    last_acq,           \* the last return of acquire: its branch and its timing
    last_send,          \* the last completed send: its outcome and the state before it
    trail,              \* per destination: what happened to it since its counter was 0 with no skip entry
    fast_in_batch,      \* acquisitions since reset_burst returned faster than the per-send delay
    last_return,        \* time the previous acquire returned
    budget,             \* what is left of the bounds of the environment
    posts,              \* the rows get_due_posts returned
    batches,            \* the groups process_due_posts built from them
    posts_table,        \* the posts table of the database
    batch_pos,          \* how many of the groups the pass has sent
    emergency_stopped,  \* SchedulerCore.emergency_stopped
    sender_posts_db,    \* whether ParallelSender.posts_db was given a store
    deferred_retries,   \* ParallelSender.deferred_retries
    run,                \* the coroutine of background_poster: its position and its locals
    batch_log,          \* what the last retry decision and the last deferred pass did
    loop,               \* the loop of background_poster: its position, counters and sleeps
    orphans,            \* per destination: sends still in the transport call whose gather raised
    delivered           \* the (post, destination) pairs the transport accepted, and again

vars == <<clock, rate_limiter, retry_system, admin_notified, lock, lock_waiters,
          pc, acquire_now, wake, send_log, notices, last_skip, last_acq,
          last_send, trail, fast_in_batch, last_return, budget, posts, batches,
          posts_table, batch_pos, emergency_stopped, sender_posts_db,
          deferred_retries, run, batch_log, loop, orphans, delivered>>

schedVars == <<posts, batches, posts_table, batch_pos>>

batchVars == <<emergency_stopped, sender_posts_db, deferred_retries, run, batch_log, loop,
               orphans, delivered>>

(***************************************************************************)
(* BalancedRateLimiter                                                     *)
(***************************************************************************)
RateLimiterInit ==
    [ burst_available       |-> burst_size,
      tokens                |-> max_tokens,
      last_update           |-> 0,
      channel_count_minute  |-> [d \in Dests |-> <<>>],
      flood_multiplier      |-> MultUnit,
      last_flood_time       |-> 0 - (WindowMs + 1),  \* 0 on the clock of time.time(): long ago
      consecutive_successes |-> 0 ]

\* tokens = min(max_tokens, tokens + elapsed * global_rate * flood_multiplier)
refill_tokens(rl, now) ==
    [rl EXCEPT !.tokens = Min(max_tokens,
                              rl.tokens + (now - rl.last_update) * global_rate
                                          * rl.flood_multiplier),
               !.last_update = now]

\* The entries of the last 60 seconds, the only ones the check keeps.
RecentSends(rl, d, now) ==
    SelectSeq(rl.channel_count_minute[d], LAMBDA t : now - t < WindowMs)

\* _check_per_channel_limit: (can_send, wait_time) and the cleaned list.
check_per_channel_limit(rl, d, now) ==
    LET recent == RecentSends(rl, d, now)
        rl1 == [rl EXCEPT !.channel_count_minute[d] = recent]
    IN  IF Len(recent) >= PerChannelLimit
        THEN [can_send |-> FALSE, wait_time |-> WindowMs - (now - recent[1]), rl |-> rl1]
        ELSE [can_send |-> TRUE, wait_time |-> 0, rl |-> rl1]

\* Time to sleep until one token is there: (1.0 - tokens) / (global_rate * flood_multiplier)
token_wait(rl) ==
    CeilDiv(TokenUnit - rl.tokens, global_rate * rl.flood_multiplier)

\* acquire, line 142-145: the send is tracked with the `now` read at line 107.
track_send(rl, d, now) ==
    [rl EXCEPT !.channel_count_minute[d] = Append(@, now)]

\* acquire, line 122-140, up to its next suspension.  next says where it stops:
\* in the burst sleep, in the token sleep, or past the token bucket ("done").
burst_or_sustained(rl, now) ==
    IF rl.burst_available > 0
    THEN [next |-> "burst_sleep", wait_time |-> BurstDelayMs,
          rl |-> [rl EXCEPT !.burst_available = @ - 1]]
    ELSE LET rl1 == refill_tokens(rl, now)
         IN  IF rl1.tokens < TokenUnit
             THEN [next |-> "token_sleep", wait_time |-> token_wait(rl1), rl |-> rl1]
             ELSE [next |-> "done", wait_time |-> 0,
                   rl |-> [rl1 EXCEPT !.tokens = @ - TokenUnit]]

\* acquire, line 106-121: from the lock to the first suspension.
acquire_enter(rl, d, now) ==
    LET chk == check_per_channel_limit(rl, d, now)
    IN  IF ~chk.can_send
        THEN [next |-> "chan_sleep", wait_time |-> chk.wait_time, rl |-> chk.rl]
        ELSE burst_or_sustained(chk.rl, now)

\* acquire, line 116-120: the re-check after the per-channel wait.
acquire_recheck(rl, d, now) ==
    LET chk == check_per_channel_limit(rl, d, now)
    IN  IF ~chk.can_send
        THEN [next |-> "abort", wait_time |-> 0, rl |-> chk.rl]
        ELSE burst_or_sustained(chk.rl, now)

\* acquire, line 137-140: after the token sleep.
acquire_after_token_wait(rl, now) ==
    LET rl1 == refill_tokens(rl, now)
    IN  [rl1 EXCEPT !.tokens = @ - TokenUnit]

report_flood_control(rl, now) ==
    [rl EXCEPT !.flood_multiplier = MultUnit \div 2,
               !.last_flood_time = now,
               !.burst_available = 0,
               !.consecutive_successes = 0]

report_success(rl, now) ==
    LET n == rl.consecutive_successes + 1
        rl1 == [rl EXCEPT !.consecutive_successes = n]
    IN  IF now - rl.last_flood_time > WindowMs /\ rl.flood_multiplier < MultUnit /\ n >= 50
        THEN LET m == Min(MultUnit, rl.flood_multiplier + 1)
             IN  [rl1 EXCEPT !.flood_multiplier = m,
                             !.consecutive_successes = IF m >= MultUnit THEN 0 ELSE n]
        ELSE rl1

reset_burst(rl) == [rl EXCEPT !.burst_available = burst_size]

(***************************************************************************)
(* SmartRetrySystem                                                        *)
(***************************************************************************)
RetrySystemInit ==
    [ skip_list            |-> [d \in Dests |-> NoTime],
      failure_history      |-> [d \in Dests |-> 0],      \* the number of its entries
      consecutive_failures |-> [d \in Dests |-> 0] ]

\* An error message is modelled by the set of the phrases str(error).lower() contains.
PermanentPhrases ==
    {"bot was kicked", "bot was blocked", "chat not found", "user is deactivated",
     "bot is not a member", "forbidden: bot is not"}
RateLimitPhrases == {"flood", "too many requests", "retry after"}
FloodPhrases == {"flood", "too many requests"}

ErrorMessages ==
    { {"chat not found"}, {"bot was blocked", "flood"}, {"flood"}, {"retry after"},
      {"timed out"} }

classify_error(error) ==
    IF error \cap PermanentPhrases # {} THEN "permanent"
    ELSE IF error \cap RateLimitPhrases # {} THEN "rate_limit"
    ELSE "temporary"

InSkipList(rs, d) == rs.skip_list[d] # NoTime

\* Mutants of record_failure: plausible slips in its three branches.
\* A rate limit counted like a temporary failure.
record_failure_counting_rate_limit(rs, d, error, now) ==
    LET error_type == classify_error(error)
        rs1 == [rs EXCEPT !.failure_history[d] = @ + 1]
        failures == rs.consecutive_failures[d] + 1
    IN  IF error_type = "permanent"
        THEN [rs1 EXCEPT !.consecutive_failures[d] = failures, !.skip_list[d] = now]
        ELSE IF failures >= 3
             THEN [rs1 EXCEPT !.consecutive_failures[d] = failures, !.skip_list[d] = now]
             ELSE [rs1 EXCEPT !.consecutive_failures[d] = failures]

\* The threshold compared with > instead of >=.
record_failure_late_skip(rs, d, error, now) ==
    LET error_type == classify_error(error)
        rs1 == [rs EXCEPT !.failure_history[d] = @ + 1]
        failures == rs.consecutive_failures[d] + 1
    IN  IF error_type = "permanent"
        THEN [rs1 EXCEPT !.consecutive_failures[d] = failures, !.skip_list[d] = now]
        ELSE IF error_type = "rate_limit"
        THEN rs1
        ELSE IF failures > 3
             THEN [rs1 EXCEPT !.consecutive_failures[d] = failures, !.skip_list[d] = now]
             ELSE [rs1 EXCEPT !.consecutive_failures[d] = failures]

\* The counter of a temporary failure set to 1 instead of incremented.
record_failure_not_counting(rs, d, error, now) ==
    LET error_type == classify_error(error)
        rs1 == [rs EXCEPT !.failure_history[d] = @ + 1]
        failures == rs.consecutive_failures[d] + 1
    IN  IF error_type = "permanent"
        THEN [rs1 EXCEPT !.consecutive_failures[d] = failures, !.skip_list[d] = now]
        ELSE IF error_type = "rate_limit"
        THEN rs1
        ELSE [rs1 EXCEPT !.consecutive_failures[d] = 1]

record_failure(rs, d, error, now) ==
    LET error_type == classify_error(error)
        rs1 == [rs EXCEPT !.failure_history[d] = @ + 1]
        failures == rs.consecutive_failures[d] + 1
    IN  IF error_type = "permanent"
        THEN [rs1 EXCEPT !.consecutive_failures[d] = failures,
                         !.skip_list[d] = now]
        ELSE IF error_type = "rate_limit"
        THEN rs1
        ELSE IF failures >= 3
             THEN [rs1 EXCEPT !.consecutive_failures[d] = failures,
                              !.skip_list[d] = now]
             ELSE [rs1 EXCEPT !.consecutive_failures[d] = failures]

\* Mutant of record_success: the skip entry is removed, the counter is kept.
record_success_keeping_count(rs, d) ==
    [rs EXCEPT !.skip_list[d] = NoTime]

record_success(rs, d) ==
    [rs EXCEPT !.consecutive_failures[d] = 0, !.skip_list[d] = NoTime]

\* Mutant of should_skip: an entry is taken for expired whatever its age.
should_skip_forgetting(rs, d, now) ==
    IF ~InSkipList(rs, d)
    THEN [ret |-> FALSE, rs |-> rs]
    ELSE [ret |-> FALSE,
          rs |-> [rs EXCEPT !.skip_list[d] = NoTime,
                            !.consecutive_failures[d] = 0]]

\* Mutant of should_skip: the expiry compared with > instead of >=.
should_skip_late_expiry(rs, d, now) ==
    IF ~InSkipList(rs, d)
    THEN [ret |-> FALSE, rs |-> rs]
    ELSE IF now - rs.skip_list[d] > SkipDurationMs
         THEN [ret |-> FALSE,
               rs |-> [rs EXCEPT !.skip_list[d] = NoTime,
                                 !.consecutive_failures[d] = 0]]
         ELSE [ret |-> TRUE, rs |-> rs]

\* should_skip: what it returns and the retry system it leaves (lazy expiry).
\* time_elapsed >= skip_duration_minutes, with time_elapsed in minutes.
should_skip(rs, d, now) ==
    IF ~InSkipList(rs, d)
    THEN [ret |-> FALSE, rs |-> rs]
    ELSE IF now - rs.skip_list[d] >= SkipDurationMs
         THEN [ret |-> FALSE,
               rs |-> [rs EXCEPT !.skip_list[d] = NoTime,
                                 !.consecutive_failures[d] = 0]]
         ELSE [ret |-> TRUE, rs |-> rs]

clear_skip_list(rs) == [rs EXCEPT !.skip_list = [d \in Dests |-> NoTime]]

\* Mutant of remove_from_skip_list: the entry is deleted, the counter is kept.
remove_from_skip_list_keeping_count(rs, d) ==
    [rs EXCEPT !.skip_list[d] = NoTime]

remove_from_skip_list(rs, d) ==
    IF InSkipList(rs, d)
    THEN [rs EXCEPT !.skip_list[d] = NoTime, !.consecutive_failures[d] = 0]
    ELSE rs

\* clearskip_command: clear_skip_list(), then the counters of the cleared channels.
clearskip_command(rs) ==
    [clear_skip_list(rs) EXCEPT
        !.consecutive_failures =
            [d \in Dests |-> IF InSkipList(rs, d) THEN 0 ELSE rs.consecutive_failures[d]]]

\* retry_channel_action: the counter is reset, the in-memory skip_list is not touched.
retry_channel_action(rs, d) == [rs EXCEPT !.consecutive_failures[d] = 0]

\* test_channel_action: a test message is sent through the bot directly; when it
\* is delivered the stored flag is cleared and the counter reset, when it raises
\* nothing is written.  The in-memory skip_list is not touched.
test_channel_action(rs, d, reachable) ==
    IF reachable THEN [rs EXCEPT !.consecutive_failures[d] = 0] ELSE rs

\* resume_channel_action: the stored flag and the stored failure count of the
\* channel are cleared; the retry system is not written.
resume_channel_action(rs, d) == rs

(***************************************************************************)
(* ParallelSender.send_post_to_channel, one coroutine per destination.     *)
(* pc: idle, created (a task of the fan-out that has not run yet),         *)
(* lock_wait, chan_sleep, burst_sleep, token_sleep (suspended inside       *)
(* acquire), transport (suspended in the transport call).                 *)
(***************************************************************************)
Sleeps == {"chan_sleep", "burst_sleep", "token_sleep"}
NoneCreated == \A d \in Dests : pc[d] # "created"
AllIdle == \A d \in Dests : pc[d] = "idle"

\* 1 / (global_rate * flood_multiplier): the per-send delay of the steady state.
MinDelayMs(rl) == (MsPerSec * MultUnit) \div (global_rate * rl.flood_multiplier)

\* The sends of the trailing 60 seconds (t - 60 s, t], the new one included.
LogSend(log, t) == Append(SelectSeq(log, LAMBDA s : t - s < WindowMs), t)

\* The trail of d after the event ev that left the retry system rs: it starts
\* again whenever d is back at 0 consecutive failures and no skip entry.
Pristine(rs, d) == rs.consecutive_failures[d] = 0 /\ ~InSkipList(rs, d)

Trail(tr, ev, rs, d) ==
    IF Pristine(rs, d) THEN <<>>
    ELSE Append(tr, [ev |-> ev, cf |-> rs.consecutive_failures[d],
                     skipped |-> InSkipList(rs, d)])

\* acquire returns at time t (mode abort: by the bare return of line 120) and
\* send_post_to_channel goes on to the transport call, which starts at t.
AcquireReturns(d, mode, rl, now0, t) ==
    /\ rate_limiter' = IF mode = "abort" THEN rl ELSE track_send(rl, d, now0)
    /\ pc' = [pc EXCEPT ![d] = "transport"]
    /\ lock' = NoDest
    /\ acquire_now' = NoTime
    /\ wake' = NoTime
    /\ send_log' = [send_log EXCEPT ![d] = LogSend(@, t)]
    /\ last_acq' = [d |-> d, mode |-> mode, delay |-> t - now0,
                    gap |-> IF last_return = NoTime THEN WindowMs ELSE t - last_return,
                    min_delay |-> MinDelayMs(rl)]
    /\ last_return' = t
    /\ fast_in_batch' = IF t - now0 < MinDelayMs(rl) THEN fast_in_batch + 1
                        ELSE fast_in_batch

\* acquire goes on at time t with r, the outcome of its code up to the next await.
ProceedAcquire(d, r, now0, t) ==
    IF r.next \in Sleeps
    THEN /\ rate_limiter' = r.rl
         /\ pc' = [pc EXCEPT ![d] = r.next]
         /\ lock' = d
         /\ acquire_now' = now0
         /\ wake' = t + r.wait_time
         /\ UNCHANGED <<send_log, last_acq, last_return, fast_in_batch>>
    ELSE AcquireReturns(d, IF r.next = "abort" THEN "abort" ELSE "sustained", r.rl, now0, t)

\* send_post_to_channel from its first line to its first suspension.
SendEntry(d) ==
    LET sk == should_skip(retry_system, d, clock)
        expired == InSkipList(retry_system, d) /\ ~sk.ret
    IN  /\ last_skip' = [d |-> d, entry |-> retry_system.skip_list[d],
                         now |-> clock, ret |-> sk.ret,
                         entry_after |-> sk.rs.skip_list[d]]
        /\ retry_system' = sk.rs
        /\ trail' = IF expired
                    THEN [trail EXCEPT ![d] = Trail(@, "expired", sk.rs, d)]
                    ELSE trail
        /\ IF sk.ret
           THEN /\ pc' = [pc EXCEPT ![d] = "idle"]
                /\ UNCHANGED <<rate_limiter, lock, lock_waiters, acquire_now, wake,
                               send_log, last_acq, last_return, fast_in_batch>>
           ELSE IF lock = NoDest /\ lock_waiters = <<>>
           THEN /\ ProceedAcquire(d, acquire_enter(rate_limiter, d, clock), clock, clock)
                /\ UNCHANGED lock_waiters
           ELSE /\ pc' = [pc EXCEPT ![d] = "lock_wait"]
                /\ lock_waiters' = Append(lock_waiters, d)
                /\ UNCHANGED <<rate_limiter, lock, acquire_now, wake,
                               send_log, last_acq, last_return, fast_in_batch>>
        /\ UNCHANGED <<clock, admin_notified, notices, last_send, schedVars>>

\* A task of the fan-out runs for the first time; the tasks start in list order.
TaskStart(d) ==
    /\ pc[d] = "created"
    /\ \A i, j \in DOMAIN channel_ids :
          (channel_ids[j] = d /\ i < j) => pc[channel_ids[i]] # "created"
    /\ SendEntry(d)
    /\ UNCHANGED budget

\* A send awaited directly: the immediate retry, a deferred retry.
DirectSend(d) ==
    /\ pc[d] = "idle"
    /\ NoneCreated
    /\ budget.events > 0
    /\ budget' = [budget EXCEPT !.events = @ - 1]
    /\ SendEntry(d)

\* The lock was released and its first waiter runs.
LockGranted(d) ==
    /\ pc[d] = "lock_wait"
    /\ NoneCreated
    /\ lock = NoDest
    /\ lock_waiters # <<>> /\ Head(lock_waiters) = d
    /\ lock_waiters' = Tail(lock_waiters)
    /\ ProceedAcquire(d, acquire_enter(rate_limiter, d, clock), clock, clock)
    /\ UNCHANGED <<clock, retry_system, admin_notified, notices, last_skip, last_send,
                   trail, budget, schedVars>>

\* asyncio.sleep(wait_time) of line 115 is over.  The timer fires at the time asked
\* for, later when the loop was busy, or, by the resolution of the loop's clock and
\* the drift of time.time() against it, early ms before it.
ChannelWake(d, early) ==
    /\ pc[d] = "chan_sleep"
    /\ NoneCreated
    /\ early = 0 \/ budget.early > 0
    /\ LET t == Max(clock, wake - early)
       IN  /\ clock' = t
           /\ ProceedAcquire(d, acquire_recheck(rate_limiter, d, t), acquire_now, t)
    /\ budget' = IF early = 0 THEN budget ELSE [budget EXCEPT !.early = @ - 1]
    /\ UNCHANGED <<retry_system, admin_notified, lock_waiters, notices, last_skip,
                   last_send, trail, schedVars>>

\* asyncio.sleep(0.04) of line 126 is over.
BurstWake(d) ==
    /\ pc[d] = "burst_sleep"
    /\ NoneCreated
    /\ LET t == Max(clock, wake)
       IN  /\ clock' = t
           /\ AcquireReturns(d, "burst", rate_limiter, acquire_now, t)
    /\ UNCHANGED <<retry_system, admin_notified, lock_waiters, notices, last_skip,
                   last_send, trail, budget, schedVars>>

\* asyncio.sleep(wait_time) of line 136 is over.
TokenWake(d) ==
    /\ pc[d] = "token_sleep"
    /\ NoneCreated
    /\ LET t == Max(clock, wake)
       IN  /\ clock' = t
           /\ AcquireReturns(d, "sustained", acquire_after_token_wait(rate_limiter, t),
                             acquire_now, t)
    /\ UNCHANGED <<retry_system, admin_notified, lock_waiters, notices, last_skip,
                   last_send, trail, budget, schedVars>>

\* What is kept of a send that completed: the retry system of d before and after.
SendRecord(d, outcome, class, rs, rs1) ==
    [d |-> d, outcome |-> outcome, class |-> class, now |-> clock,
     cf_before |-> rs.consecutive_failures[d], entry_before |-> rs.skip_list[d],
     cf_after |-> rs1.consecutive_failures[d], entry_after |-> rs1.skip_list[d],
     skip_after |-> should_skip(rs1, d, clock).ret,
     trail_before |-> trail[d]]

\* The transport call returned: sender.py line 188-194.
TransportOk(d) ==
    /\ pc[d] = "transport"
    /\ NoneCreated
    /\ rate_limiter' = report_success(rate_limiter, clock)
    /\ retry_system' = record_success(retry_system, d)
    /\ admin_notified' = admin_notified \ {d}
    /\ pc' = [pc EXCEPT ![d] = "idle"]
    /\ last_send' = SendRecord(d, "success", "none", retry_system, retry_system')
    /\ trail' = [trail EXCEPT ![d] = Trail(@, "success", retry_system', d)]
    /\ UNCHANGED <<clock, lock, lock_waiters, acquire_now, wake, send_log, notices,
                   last_skip, last_acq, fast_in_batch, last_return, budget, schedVars>>

\* Mutant of ActionableDue: the notice does not look at admin_notified.
ActionableDue_unchecked(d, notified) == TRUE

\* `channel_id not in self.admin_notified` (line 209, line 374).
ActionableDue(d, notified) == d \notin notified

\* The transport call raised TelegramError(error): sender.py line 196-214.
TransportRaises(d, error) ==
    /\ pc[d] = "transport"
    /\ NoneCreated
    /\ rate_limiter' = IF error \cap FloodPhrases # {}
                       THEN report_flood_control(rate_limiter, clock)
                       ELSE rate_limiter
    /\ retry_system' = record_failure(retry_system, d, error, clock)
    /\ LET failure_count == retry_system'.consecutive_failures[d]
       IN  IF failure_count = 1
           THEN /\ notices' = [notices EXCEPT ![d].first = @ + 1]
                /\ UNCHANGED admin_notified
           ELSE IF failure_count >= 3 /\ ActionableDue(d, admin_notified)
           THEN /\ notices' = [notices EXCEPT ![d].actionable = @ + 1]
                /\ admin_notified' = admin_notified \cup {d}
           ELSE UNCHANGED <<notices, admin_notified>>
    /\ pc' = [pc EXCEPT ![d] = "idle"]
    /\ last_send' = SendRecord(d, "failed", classify_error(error), retry_system,
                                retry_system')
    /\ trail' = [trail EXCEPT ![d] = Trail(@, classify_error(error), retry_system', d)]
    /\ UNCHANGED <<clock, lock, lock_waiters, acquire_now, wake, send_log,
                   last_skip, last_acq, fast_in_batch, last_return, schedVars>>

TransportFail(d, error) ==
    /\ TransportRaises(d, error)
    /\ UNCHANGED budget

\* The one failure of SpecRate: the provider answers with flood control.
TransportFlood(d) ==
    /\ budget.events > 0
    /\ budget' = [budget EXCEPT !.events = @ - 1]
    /\ TransportRaises(d, {"flood"})

\* Time passes: a transport call, a sleep of the scheduler loop, a busy loop.
TimePasses(dt) ==
    /\ NoneCreated
    /\ budget.events > 0
    /\ budget' = [budget EXCEPT !.events = @ - 1]
    /\ clock' = clock + dt
    /\ UNCHANGED <<rate_limiter, retry_system, admin_notified, lock, lock_waiters, pc,
                   acquire_now, wake, send_log, notices, last_skip, last_acq, last_send,
                   trail, fast_in_batch, last_return, schedVars>>

(***************************************************************************)
(* The administrative surface, as far as it writes the retry system.       *)
(***************************************************************************)
AdminStep(rs, touched) ==
    /\ NoneCreated
    /\ budget.events > 0
    /\ budget' = [budget EXCEPT !.events = @ - 1]
    /\ retry_system' = rs
    /\ trail' = [d \in Dests |->
                    IF d \in touched THEN Trail(trail[d], "admin", rs, d) ELSE trail[d]]
    /\ UNCHANGED <<clock, rate_limiter, admin_notified, lock, lock_waiters, pc,
                   acquire_now, wake, send_log, notices, last_skip, last_acq, last_send,
                   fast_in_batch, last_return, schedVars>>

ClearSkipCommand == AdminStep(clearskip_command(retry_system), Dests)

RetryChannelAction(d) == AdminStep(retry_channel_action(retry_system, d), {d})

\* recycle_channel_action: remove_from_skip_list of the recycled channel.
RecycleChannelAction(d) == AdminStep(remove_from_skip_list(retry_system, d), {d})

(***************************************************************************)
(* Spec: sends to the destinations in any order, with every outcome of the *)
(* transport, the operator's actions and the passing of time.              *)
(***************************************************************************)
TimeSteps == {1, SkipDurationMs - 1}

\* background_poster before its first pass: no batch, no retry loop, no task awaited.
RunIdle ==
    [ pc           |-> "idle",
      mode         |-> "none",
      batch        |-> <<>>,
      i            |-> 0,
      results      |-> [d \in Dests |-> "none"],
      failed_sends |-> <<>>,
      k            |-> 0,
      remaining    |-> <<>>,
      stop_at      |-> 0,
      fanned       |-> {},
      flag_at_fan  |-> FALSE ]

BatchLogInit ==
    [ decision |-> [mode |-> "none", failed |-> 0, pending_soon |-> FALSE, stopped |-> FALSE],
      left     |-> [why |-> "none", d |-> NoDest, attempts |-> 0, alerts |-> 0,
                    notified0 |-> FALSE, clean |-> TRUE, notified |-> FALSE],
      error_of |-> [d \in Dests |-> {}],
      crashed  |-> FALSE ]

\* background_poster before its first iteration; last is what is kept of the
\* iteration before the current one.
LoopInit ==
    [ pc                 |-> "tick",
      ticks              |-> 0,
      cleanup_counter    |-> 0,
      idle_retry_counter |-> 0,
      fetched            |-> <<>>,
      raised             |-> "none",
      kind               |-> "none",
      time_until_next    |-> 0,
      sleep_duration     |-> 0,
      since              |-> 0,
      deferred_called    |-> FALSE,
      last               |-> [raised |-> "none", kind |-> "none", time_until_next |-> 0,
                              suspended |-> 0, deferred_called |-> FALSE] ]

\* Everything but the rate limiter, after construction.
InitButLimiter ==
    /\ clock = 0
    /\ retry_system = RetrySystemInit
    /\ admin_notified = {}
    /\ lock = NoDest
    /\ lock_waiters = <<>>
    /\ pc = [d \in Dests |-> "idle"]
    /\ acquire_now = NoTime
    /\ wake = NoTime
    /\ send_log = [d \in Dests |-> <<>>]
    /\ notices = [d \in Dests |-> [first |-> 0, actionable |-> 0]]
    /\ last_skip = [d |-> NoDest, entry |-> NoTime, now |-> 0, ret |-> FALSE,
                    entry_after |-> NoTime]
    /\ last_acq = [d |-> NoDest, mode |-> "none", delay |-> 0, gap |-> 0, min_delay |-> 0]
    /\ last_send = [d |-> NoDest, outcome |-> "none", class |-> "none", now |-> 0,
                    cf_before |-> 0, entry_before |-> NoTime,
                    cf_after |-> 0, entry_after |-> NoTime, skip_after |-> FALSE,
                    trail_before |-> <<>>]
    /\ trail = [d \in Dests |-> <<>>]
    /\ fast_in_batch = 0
    /\ last_return = NoTime
    /\ posts = <<>>
    /\ batches = <<>>
    /\ posts_table = <<>>
    /\ batch_pos = 0
    /\ emergency_stopped = FALSE
    /\ deferred_retries = <<>>
    /\ run = RunIdle
    /\ batch_log = BatchLogInit
    /\ loop = LoopInit
    /\ orphans = [d \in Dests |-> 0]
    /\ delivered = [once |-> {}, again |-> {}, unmarked |-> {}]

InitCommon ==
    /\ InitButLimiter
    /\ rate_limiter = RateLimiterInit

Init ==
    /\ InitCommon
    /\ sender_posts_db = FALSE
    /\ budget = [events |-> MaxEvents, early |-> 0, items |-> 0, batches |-> 0]

Next ==
    \/ \E d \in Dests : DirectSend(d) /\ UNCHANGED batchVars
    \/ \E d \in Dests : LockGranted(d) /\ UNCHANGED batchVars
    \/ \E d \in Dests : BurstWake(d) /\ UNCHANGED batchVars
    \/ \E d \in Dests : TransportOk(d) /\ UNCHANGED batchVars
    \/ \E d \in Dests, error \in ErrorMessages : TransportFail(d, error) /\ UNCHANGED batchVars
    \/ \E dt \in TimeSteps : TimePasses(dt) /\ UNCHANGED batchVars
    \/ ClearSkipCommand /\ UNCHANGED batchVars
    \/ \E d \in Dests : RetryChannelAction(d) /\ UNCHANGED batchVars
    \/ \E d \in Dests : RecycleChannelAction(d) /\ UNCHANGED batchVars

Spec == Init /\ [][Next]_vars

(***************************************************************************)
(* SpecRate: the calls the rate limiter gets from batches.  Every item of  *)
(* a batch is fanned out to all destinations at once (sender.py line       *)
(* 244-254), a batch starts with reset_burst (line 224), retries are sends *)
(* awaited one by one; a transport call succeeds or is answered with flood   *)
(* control.                                                                *)
(***************************************************************************)
RateTimeSteps == {MsPerSec, WindowMs}

\* The filter of line 247-251: should_skip is called for every destination.
FilterSkipped(rs) ==
    [ skip_list |->
        [d \in Dests |-> should_skip(rs, d, clock).rs.skip_list[d]],
      failure_history |-> rs.failure_history,
      consecutive_failures |->
        [d \in Dests |-> should_skip(rs, d, clock).rs.consecutive_failures[d]] ]

\* One item of a batch is fanned out; with first, it is the first item of a new batch.
FanOutItem(first) ==
    /\ AllIdle
    /\ lock_waiters = <<>>
    /\ budget.items > 0
    /\ IF first THEN budget.batches > 0 ELSE budget.batches < MaxRateBatches
    /\ budget' = [budget EXCEPT !.items = @ - 1,
                                !.batches = IF first THEN @ - 1 ELSE @]
    /\ rate_limiter' = IF first THEN reset_burst(rate_limiter) ELSE rate_limiter
    /\ fast_in_batch' = IF first THEN 0 ELSE fast_in_batch
    /\ retry_system' = FilterSkipped(retry_system)
    /\ pc' = [d \in Dests |->
                IF should_skip(retry_system, d, clock).ret THEN "idle" ELSE "created"]
    /\ UNCHANGED <<clock, admin_notified, lock, lock_waiters, acquire_now, wake, send_log,
                   notices, last_skip, last_acq, last_send, trail, last_return, schedVars>>

InitRate ==
    /\ InitCommon
    /\ sender_posts_db = FALSE
    /\ budget = [events |-> MaxRateEvents, early |-> MaxEarly, items |-> MaxRateItems,
                 batches |-> MaxRateBatches]

NextRate ==
    \/ \E first \in BOOLEAN : FanOutItem(first) /\ UNCHANGED batchVars
    \/ \E d \in Dests : TaskStart(d) /\ UNCHANGED batchVars
    \/ \E d \in Dests : DirectSend(d) /\ UNCHANGED batchVars
    \/ \E d \in Dests : LockGranted(d) /\ UNCHANGED batchVars
    \/ \E d \in Dests, early \in {0, EarlyWakeMs} : ChannelWake(d, early) /\ UNCHANGED batchVars
    \/ \E d \in Dests : BurstWake(d) /\ UNCHANGED batchVars
    \/ \E d \in Dests : TokenWake(d) /\ UNCHANGED batchVars
    \/ \E d \in Dests : TransportOk(d) /\ UNCHANGED batchVars
    \/ \E d \in Dests : TransportFlood(d) /\ UNCHANGED batchVars
    \/ \E dt \in RateTimeSteps : TimePasses(dt) /\ UNCHANGED batchVars

SpecRate == InitRate /\ [][NextRate]_vars

(***************************************************************************)
(* The claims about the rate limiter, under SpecRate.                      *)
(***************************************************************************)
SendsInWindow(d, t) ==
    Cardinality({i \in DOMAIN send_log[d] : t - send_log[d][i] < WindowMs})

\* C1: for every destination, the number of transport sends started in the trailing
\* 60 seconds never exceeds the per-destination ceiling of 20.
C1_PerDestinationCeiling ==
    \A d \in Dests : SendsInWindow(d, clock) <= PerChannelLimit

\* C7: within one batch at most burst_size acquisitions return faster than the
\* per-send delay, and every acquisition served by the token bucket is spaced from
\* the one before it by at least the per-send delay of the steady state.
C7_BurstThenSteadyRate ==
    /\ fast_in_batch <= burst_size
    /\ last_acq.mode = "sustained" => last_acq.gap >= last_acq.min_delay

(***************************************************************************)
(* The claims about the retry system and the send, under Spec.             *)
(***************************************************************************)
TransientOnly(tr) == \A i \in DOMAIN tr : tr[i].ev = "temporary"

\* C2: a failure classified rate_limit leaves consecutive_failures of the destination
\* unchanged and does not put the destination into the skip list.
C2_RateLimitedFrame ==
    last_send.class = "rate_limit" =>
        /\ last_send.cf_after = last_send.cf_before
        /\ last_send.entry_after = last_send.entry_before

C2_Witness ==
    /\ last_send.class = "rate_limit"
    /\ last_send.cf_before = 2
    /\ last_send.entry_before = NoTime

C4_SuccessResets ==
    last_send.outcome = "success" =>
        /\ last_send.cf_after = 0
        /\ last_send.entry_after = NoTime
        /\ ~last_send.skip_after

C4_Witness ==
    /\ last_send.outcome = "success"
    /\ last_send.cf_before = 2

\* C5: with a skip entry started at s, should_skip returns true at every time now
\* with now - s < skip_duration and false (removing the entry) from
\* now - s = skip_duration on; it is true right after a permanent failure.
C5_SkipWindow ==
    /\ \A d \in Dests :
          InSkipList(retry_system, d) =>
              (should_skip(retry_system, d, clock).ret
                  <=> clock - retry_system.skip_list[d] < SkipDurationMs)
    /\ last_skip.entry # NoTime =>
          /\ last_skip.ret <=> last_skip.now - last_skip.entry < SkipDurationMs
          /\ last_skip.ret => last_skip.entry_after = last_skip.entry
          /\ ~last_skip.ret => last_skip.entry_after = NoTime
    /\ last_send.class = "permanent" => last_send.skip_after

C5_Witness ==
    /\ last_skip.entry # NoTime
    /\ last_skip.now - last_skip.entry = SkipDurationMs
    /\ ~last_skip.ret
    /\ last_send.class = "permanent"

NoTag == ""
Tags == {NoTag, "a", "b"}
ScheduleTimes == {0, 2 * MsPerSec, 5 * MsPerSec, 8 * MsPerSec, 40 * MsPerSec}
PollSteps == {10 * MsPerSec}
LookaheadMs == lookahead_seconds * MsPerSec
GroupWindowMs == GroupWindowSec * MsPerSec
Abs(x) == IF x < 0 THEN 0 - x ELSE x

\* PostsDB.schedule_post: INSERT of a row; posted and successful_posts default
\* to 0 and posted_at to NULL.  scheduled_time is the text isoformat() wrote, which
\* datetime.fromisoformat parses: the row is kept with the time and parses = TRUE.
schedule_post(table, scheduled_time_utc, batch_id) ==
    Append(table, [id |-> Len(table) + 1, scheduled_time |-> scheduled_time_utc,
                   parses |-> TRUE,
                   batch_id |-> batch_id, posted |-> FALSE, posted_at |-> NoTime,
                   successful_posts |-> 0])

\* A row that was not written by schedule_post: the text of its scheduled_time
\* stands at the place sort_key in the order of the column and does not parse.
foreign_row(table, sort_key) ==
    Append(table, [id |-> Len(table) + 1, scheduled_time |-> sort_key,
                   parses |-> FALSE,
                   batch_id |-> NoTag, posted |-> FALSE, posted_at |-> NoTime,
                   successful_posts |-> 0])

\* Mutant of mark_posted: the flag is written without its timestamp.
mark_posted_flag_only(table, post_id, now, successful) ==
    [i \in DOMAIN table |->
        IF table[i].id = post_id
        THEN [table[i] EXCEPT !.posted = TRUE, !.successful_posts = successful]
        ELSE table[i]]

\* Mutant of mark_posted: the count is written, the flag is not.
mark_posted_count_only(table, post_id, now, successful) ==
    [i \in DOMAIN table |->
        IF table[i].id = post_id
        THEN [table[i] EXCEPT !.successful_posts = successful]
        ELSE table[i]]

\* UPDATE posts SET posted = 1, posted_at = now, successful_posts = successful
\* WHERE id = post_id.
mark_posted(table, post_id, now, successful) ==
    [i \in DOMAIN table |->
        IF table[i].id = post_id
        THEN [table[i] EXCEPT !.posted = TRUE, !.posted_at = now,
                              !.successful_posts = successful]
        ELSE table[i]]

RECURSIVE mark_all_posted(_, _, _)
mark_all_posted(table, post_ids, now) ==
    IF post_ids = <<>> THEN table
    ELSE mark_all_posted(mark_posted(table, Head(post_ids), now, 0), Tail(post_ids), now)

\* ORDER BY scheduled_time, rows of one scheduled_time in the order of their ids.
RECURSIVE OrderByScheduledTime(_)
OrderByScheduledTime(rows) ==
    IF rows = <<>> THEN <<>>
    ELSE LET n == Len(rows)
             sorted == OrderByScheduledTime(SubSeq(rows, 1, n - 1))
             k == Cardinality({i \in DOMAIN sorted :
                                  sorted[i].scheduled_time <= rows[n].scheduled_time})
         IN  SubSeq(sorted, 1, k) \o <<rows[n]>> \o SubSeq(sorted, k + 1, Len(sorted))

\* Mutant of get_due_posts: the fetch looks twice as far ahead.
get_due_posts_far(table, now) ==
    LET IsDue(p) == p.scheduled_time <= now + 2 * LookaheadMs /\ ~p.posted
        rows == OrderByScheduledTime(SelectSeq(table, IsDue))
    IN  SubSeq(rows, 1, Min(Len(rows), FetchLimit))

\* PostsDB.get_due_posts: scheduled_time <= now + lookahead AND posted = 0
\* ORDER BY scheduled_time LIMIT 200.
get_due_posts(table, now) ==
    LET IsDue(p) == p.scheduled_time <= now + LookaheadMs /\ ~p.posted
        rows == OrderByScheduledTime(SelectSeq(table, IsDue))
    IN  SubSeq(rows, 1, Min(Len(rows), FetchLimit))

\* Mutant of get_due_posts_store: a fetch that claims the rows it returns.
get_due_posts_store_claiming(table, now) ==
    [i \in DOMAIN table |->
        IF table[i].scheduled_time <= now + LookaheadMs /\ ~table[i].posted
        THEN [table[i] EXCEPT !.posted = TRUE]
        ELSE table[i]]

\* The posts table after get_due_posts: its one statement is a SELECT.
get_due_posts_store(table, now) == table

\* The locals of the grouping loop before its first iteration.
GroupLoopInit ==
    [batches |-> <<>>, current_batch |-> <<>>, last_time |-> NoTime, last_batch_id |-> NoTag]

StartGroup(st, post) ==
    [st EXCEPT !.current_batch = <<post.id>>, !.last_time = post.scheduled_time,
               !.last_batch_id = post.batch_id]

CloseGroup(st) ==
    [st EXCEPT !.batches = Append(@, [batch_time |-> st.last_time,
                                      batch_posts |-> st.current_batch])]

\* Mutants of the loop body: the window compared with < instead of <=, and the
\* window measured from the previous item instead of the first of the group.
GroupStep_strict(st, post) ==
    IF st.last_time = NoTime
    THEN StartGroup(st, post)
    ELSE LET time_diff == Abs(post.scheduled_time - st.last_time)
         IN  IF post.batch_id # NoTag /\ post.batch_id = st.last_batch_id
             THEN [st EXCEPT !.current_batch = Append(@, post.id)]
             ELSE IF time_diff < GroupWindowMs
             THEN [st EXCEPT !.current_batch = Append(@, post.id)]
             ELSE StartGroup(CloseGroup(st), post)

GroupStep_sliding(st, post) ==
    IF st.last_time = NoTime
    THEN StartGroup(st, post)
    ELSE LET time_diff == Abs(post.scheduled_time - st.last_time)
         IN  IF post.batch_id # NoTag /\ post.batch_id = st.last_batch_id
             THEN [st EXCEPT !.current_batch = Append(@, post.id)]
             ELSE IF time_diff <= GroupWindowMs
             THEN [st EXCEPT !.current_batch = Append(@, post.id),
                             !.last_time = post.scheduled_time]
             ELSE StartGroup(CloseGroup(st), post)

\* Mutant of GroupStep: the row is grouped whether its scheduled_time parses or not.
GroupStep_unparsed(st, post) ==
    IF st.last_time = NoTime
    THEN StartGroup(st, post)
    ELSE LET time_diff == Abs(post.scheduled_time - st.last_time)
         IN  IF post.batch_id # NoTag /\ post.batch_id = st.last_batch_id
             THEN [st EXCEPT !.current_batch = Append(@, post.id)]
             ELSE IF time_diff <= GroupWindowMs
             THEN [st EXCEPT !.current_batch = Append(@, post.id)]
             ELSE StartGroup(CloseGroup(st), post)

\* One iteration of the loop.  A row whose scheduled_time does not parse raises in
\* datetime.fromisoformat and is left by `continue` (line 96-111); the rows
\* schedule_post wrote parse.
GroupStep(st, post) ==
    IF ~post.parses
    THEN st
    ELSE IF st.last_time = NoTime
    THEN StartGroup(st, post)
    ELSE LET time_diff == Abs(post.scheduled_time - st.last_time)
         IN  IF post.batch_id # NoTag /\ post.batch_id = st.last_batch_id
             THEN [st EXCEPT !.current_batch = Append(@, post.id)]
             ELSE IF time_diff <= GroupWindowMs
             THEN [st EXCEPT !.current_batch = Append(@, post.id)]
             ELSE StartGroup(CloseGroup(st), post)

RECURSIVE GroupLoop(_, _)
GroupLoop(st, rows) ==
    IF rows = <<>> THEN st ELSE GroupLoop(GroupStep(st, Head(rows)), Tail(rows))

\* The loop and the `if current_batch` after it.
group_due_posts(rows) ==
    LET st == GroupLoop(GroupLoopInit, rows)
    IN  IF st.current_batch # <<>> THEN CloseGroup(st).batches ELSE st.batches

PassIdle == batch_pos = Len(batches)

\* A handler stores a post (scheduling_handlers -> PostsDB.schedule_post).
SchedulePost(t, tag) ==
    /\ budget.items > 0
    /\ budget' = [budget EXCEPT !.items = @ - 1]
    /\ posts_table' = schedule_post(posts_table, t, tag)
    /\ UNCHANGED <<clock, rate_limiter, retry_system, admin_notified, lock, lock_waiters,
                   pc, acquire_now, wake, send_log, notices, last_skip, last_acq,
                   last_send, trail, fast_in_batch, last_return, posts, batches,
                   batch_pos>>

\* process_due_posts up to its first await: the fetch and the grouping.
ProcessDuePosts ==
    /\ PassIdle
    /\ LET due == get_due_posts(posts_table, clock)
       IN  /\ due # <<>>
           /\ posts' = due
           /\ batches' = group_due_posts(due)
    /\ posts_table' = get_due_posts_store(posts_table, clock)
    /\ batch_pos' = 0
    /\ UNCHANGED <<clock, rate_limiter, retry_system, admin_notified, lock, lock_waiters,
                   pc, acquire_now, wake, send_log, notices, last_skip, last_acq,
                   last_send, trail, fast_in_batch, last_return, budget>>

\* One iteration of `for batch_time, batch_posts in batches`: the wait for the
\* batch time, the batch (which marks each of its posts posted) and the sleep(1).
\* After the last one process_due_posts returns and its locals are gone.
SendBatch ==
    /\ ~PassIdle
    /\ LET batch == batches[batch_pos + 1]
           wait == batch.batch_time - clock
           start == IF wait > 0 /\ wait <= LookaheadMs THEN batch.batch_time ELSE clock
       IN  /\ clock' = start + MsPerSec
           /\ posts_table' = mark_all_posted(posts_table, batch.batch_posts, start)
    /\ IF batch_pos + 1 = Len(batches)
       THEN posts' = <<>> /\ batches' = <<>> /\ batch_pos' = 0
       ELSE batch_pos' = batch_pos + 1 /\ UNCHANGED <<posts, batches>>
    /\ UNCHANGED <<rate_limiter, retry_system, admin_notified, lock, lock_waiters,
                   pc, acquire_now, wake, send_log, notices, last_skip, last_acq,
                   last_send, trail, fast_in_batch, last_return, budget>>

\* background_poster sleeps between two passes.
PollSleep(dt) ==
    /\ PassIdle
    /\ budget.events > 0
    /\ budget' = [budget EXCEPT !.events = @ - 1]
    /\ clock' = clock + dt
    /\ UNCHANGED <<rate_limiter, retry_system, admin_notified, lock, lock_waiters, pc,
                   acquire_now, wake, send_log, notices, last_skip, last_acq, last_send,
                   trail, fast_in_batch, last_return, schedVars>>

InitGroup ==
    /\ InitCommon
    /\ sender_posts_db = FALSE
    /\ budget = [events |-> MaxPolls, early |-> 0, items |-> MaxPosts, batches |-> 0]

NextGroup ==
    \/ \E t \in ScheduleTimes, tag \in Tags : SchedulePost(t, tag) /\ UNCHANGED batchVars
    \/ ProcessDuePosts /\ UNCHANGED batchVars
    \/ SendBatch /\ UNCHANGED batchVars
    \/ \E dt \in PollSteps : PollSleep(dt) /\ UNCHANGED batchVars

SpecGroup == InitGroup /\ [][NextGroup]_vars

(***************************************************************************)
(* The claims about the grouping, under SpecGroup.                         *)
(***************************************************************************)
Flatten(bs) ==
    LET RECURSIVE Cat(_)
        Cat(k) == IF k = 0 THEN <<>> ELSE Cat(k - 1) \o bs[k].batch_posts
    IN  Cat(Len(bs))

Ids(rows) == [i \in DOMAIN rows |-> rows[i].id]

\* The group of the i-th fetched row, and the first row of that group.
GroupOf(i) ==
    CHOOSE g \in DOMAIN batches :
        \E k \in DOMAIN batches[g].batch_posts : batches[g].batch_posts[k] = posts[i].id

FirstOf(g) ==
    CHOOSE i \in DOMAIN posts : posts[i].id = batches[g].batch_posts[1]

SameGroup(i, j) == GroupOf(i) = GroupOf(j)

Untagged(rows) == \A i \in DOMAIN rows : rows[i].batch_id = NoTag

\* C8: the groups are the fetched rows in scheduled-time order, cut where a row
\* neither carries the batch tag of the running group nor lies within 5 seconds
\* of the group's first timestamp; untagged rows at T, T+2s, T+40s give
\* [{1, 2}, {3}].
C8_GroupingRule ==
    /\ Flatten(batches) = Ids(posts)
    /\ \A g \in DOMAIN batches :
          /\ batches[g].batch_posts # <<>>
          /\ batches[g].batch_time = posts[FirstOf(g)].scheduled_time
    /\ \A i \in DOMAIN posts :
          i > 1 =>
              LET first == posts[FirstOf(GroupOf(i - 1))]
              IN  SameGroup(i - 1, i) <=>
                      \/ posts[i].batch_id # NoTag /\ posts[i].batch_id = first.batch_id
                      \/ posts[i].scheduled_time - first.scheduled_time <= GroupWindowMs
    /\ ( /\ Len(posts) = 3
         /\ Untagged(posts)
         /\ posts[2].scheduled_time = posts[1].scheduled_time + 2 * MsPerSec
         /\ posts[3].scheduled_time = posts[1].scheduled_time + 40 * MsPerSec )
       => /\ Len(batches) = 2
          /\ batches[1].batch_posts = <<posts[1].id, posts[2].id>>
          /\ batches[2].batch_posts = <<posts[3].id>>

C8_Witness ==
    /\ Len(posts) = 3
    /\ Untagged(posts)
    /\ posts[2].scheduled_time = posts[1].scheduled_time + 2 * MsPerSec
    /\ posts[3].scheduled_time = posts[1].scheduled_time + 40 * MsPerSec
    /\ Len(batches) = 2
    /\ Len(batches[1].batch_posts) = 2

\* C9: any two fetched rows that share a batch key are in the same group.
C9_SharedKeySameGroup ==
    \A i, j \in DOMAIN posts :
        (posts[i].batch_id # NoTag /\ posts[i].batch_id = posts[j].batch_id)
            => SameGroup(i, j)

\* C10 as stated: without batch keys, two consecutive rows are in the same group
\* iff their scheduled times differ by at most 5 seconds.
C10_ConsecutiveWithinWindow ==
    Untagged(posts) =>
        \A i \in DOMAIN posts :
            i > 1 =>
                (SameGroup(i - 1, i) <=>
                    posts[i].scheduled_time - posts[i - 1].scheduled_time <= GroupWindowMs)

\* C10: the groups are a function of the fetched rows, and without batch keys two
\* consecutive rows are in the same group iff the later one lies within 5 seconds
\* of the first timestamp of the earlier one's group; rows of one group then
\* differ by at most 5 seconds.
C10_WithinWindowOfGroupStart ==
    /\ batches = group_due_posts(posts)
    /\ Untagged(posts) =>
          \A i \in DOMAIN posts :
              i > 1 =>
                  /\ SameGroup(i - 1, i) <=>
                        posts[i].scheduled_time
                            - posts[FirstOf(GroupOf(i - 1))].scheduled_time <= GroupWindowMs
                  /\ SameGroup(i - 1, i) =>
                        posts[i].scheduled_time - posts[i - 1].scheduled_time <= GroupWindowMs

C10_Witness ==
    /\ Len(posts) = 3
    /\ Untagged(posts)
    /\ posts[2].scheduled_time = posts[1].scheduled_time + 5 * MsPerSec
    /\ posts[3].scheduled_time = posts[1].scheduled_time + 8 * MsPerSec
    /\ Len(batches) = 2
    /\ batches[2].batch_posts = <<posts[3].id>>

C15_PostedAtIffPosted ==
    \A i \in DOMAIN posts_table :
        posts_table[i].posted <=> posts_table[i].posted_at # NoTime

C15_Witness ==
    /\ \E i \in DOMAIN posts_table :
          posts_table[i].posted /\ posts_table[i].posted_at # NoTime
    /\ \E i \in DOMAIN posts_table :
          ~posts_table[i].posted /\ posts_table[i].posted_at = NoTime

\* C18: whenever a destination's entry leaves the skip list (lazy expiry, success,
\* removal of one destination, clearing of the list by the operator), its
\* consecutive-failure counter is 0 right afterwards.
C18_RemovalResetsCounter ==
    [][\A d \in Dests :
          (InSkipList(retry_system, d) /\ ~InSkipList(retry_system', d))
              => retry_system'.consecutive_failures[d] = 0]_vars

C18_Witness ==
    /\ last_skip.entry # NoTime
    /\ last_skip.entry_after = NoTime
    /\ last_send.class = "permanent"
    /\ last_send.cf_after = 1
    /\ last_send.d = last_skip.d
    /\ retry_system.consecutive_failures[last_skip.d] = 0


(***************************************************************************)
(* SpecBatch: the one coroutine of background_poster.  It runs              *)
(* process_due_posts, send_batch_to_all_channels for each batch (the main  *)
(* phase, the retry decision, the immediate retries) and                    *)
(* process_deferred_retries; the operator stops and resumes it.  The        *)
(* coroutine is at an await when run.pc is idle, gather or wait; its other  *)
(* positions are code between two awaits, during which nothing else runs.   *)
(* A batch has at most burst_size sends, so acquire takes its burst branch. *)
(***************************************************************************)
max_attempts == 3
defer_seconds == 60
minutes_old == 30

DeferWindowMs == defer_seconds * MsPerSec
CleanupAgeMs == minutes_old * 60 * MsPerSec
LaterPostMs == 30 * MsPerSec

MaxBatchPosts == 2
MaxFailures == 4
MaxBatchEvents == 1

\* One message of each classification (permanent, rate_limit, temporary).
BatchErrors == {{"chat not found"}, {"flood"}, {"timed out"}}

sendVars == <<rate_limiter, retry_system, admin_notified, lock, lock_waiters, pc,
              acquire_now, wake, send_log, notices, last_skip, last_acq, last_send,
              trail, fast_in_batch, last_return>>

NoResults == [d \in Dests |-> "none"]

\* The poster is about to go on from an await.  It reads the stop flag only when it
\* runs, so a command that arrives during an await is taken at the end of it.
AtResume ==
    \/ run.pc = "idle" /\ AllIdle
    \/ run.pc \in {"gather", "wait"} /\ \A d \in Dests : run.results[d] \in {"none", "true", "false"}

PostFound(table, post_id) == \E i \in DOMAIN table : table[i].id = post_id

IsPosted(table, post_id) ==
    \E i \in DOMAIN table : table[i].id = post_id /\ table[i].posted

\* PostsDB.get_next_scheduled_post: SELECT scheduled_time FROM posts WHERE posted = 0
\* ORDER BY scheduled_time LIMIT 1.
\* The text of the first row is parsed; when that fails, None is returned (line 356-361).
get_next_scheduled_post(table) ==
    LET pending == {i \in DOMAIN table : ~table[i].posted}
    IN  IF pending = {} THEN NoTime
        ELSE LET first == CHOOSE i \in pending : \A j \in pending :
                             \/ table[i].scheduled_time < table[j].scheduled_time
                             \/ table[i].scheduled_time = table[j].scheduled_time /\ i <= j
             IN  IF table[first].parses THEN table[first].scheduled_time ELSE NoTime

\* ParallelSender._should_defer_retries; has_db is `self.posts_db` being set.
should_defer_retries(has_db, table, now) ==
    IF ~has_db THEN FALSE
    ELSE LET next_post_time == get_next_scheduled_post(table)
         IN  next_post_time # NoTime /\ next_post_time - now < DeferWindowMs

\* PostsDB.cleanup_old_posts: DELETE FROM posts WHERE posted = 1 AND posted_at < cutoff.
cleanup_old_posts(table, now) ==
    SelectSeq(table, LAMBDA p : ~(p.posted /\ p.posted_at < now - CleanupAgeMs))

\* Mutant of StopRequested: the flag is never looked at.
StopRequested_never(flag) == FALSE

\* `emergency_stopped_flag and emergency_stopped_flag()`, `self.emergency_stopped`.
StopRequested(flag) == flag

\* Mutant of AllJoined: the join returns when the first task is done.
AllJoined_first(results) == \E d \in Dests : results[d] \in {"true", "false"}

\* asyncio.gather(*tasks) returns the results: every task it was given is done.
AllJoined(results) == \A d \in Dests : results[d] \in {"none", "true", "false"}

\* The entry the retry decision appends for a failed send; alerts0, notified0 and
\* clean observe the destination from the moment the entry is queued.
DeferredEntry(f) ==
    [ post_id    |-> f.post_id,
      channel_id |-> f.channel_id,
      attempts   |-> 0,
      alerts0    |-> notices[f.channel_id].actionable,
      notified0  |-> f.channel_id \in admin_notified,
      clean      |-> TRUE ]

\* What is kept of an entry that leaves the deferred queue.
Left(why, e, attempts, ntc, notified) ==
    [ why |-> why, d |-> e.channel_id, attempts |-> attempts,
      alerts |-> ntc[e.channel_id].actionable - e.alerts0,
      notified0 |-> e.notified0, clean |-> e.clean,
      notified |-> e.channel_id \in notified ]

\* should_skip(channel_id) of a loop that then goes on without a send.
SkipCheckOnly(d) ==
    LET sk == should_skip(retry_system, d, clock)
    IN  /\ retry_system' = sk.rs
        /\ trail' = IF InSkipList(retry_system, d) /\ ~sk.ret
                    THEN [trail EXCEPT ![d] = Trail(@, "expired", sk.rs, d)]
                    ELSE trail
        /\ UNCHANGED <<clock, rate_limiter, admin_notified, lock, lock_waiters, pc,
                       acquire_now, wake, send_log, notices, last_skip, last_acq,
                       last_send, fast_in_batch, last_return, schedVars>>

\* send_batch_to_all_channels returns, process_due_posts sleeps 1 s (line 161) and
\* goes to its next batch; after the last one its locals are gone.
ReturnFromBatch ==
    /\ run' = RunIdle
    /\ clock' = clock + MsPerSec
    /\ IF batch_pos + 1 = Len(batches)
       THEN posts' = <<>> /\ batches' = <<>> /\ batch_pos' = 0
       ELSE batch_pos' = batch_pos + 1 /\ UNCHANGED <<posts, batches>>

\* The scheduling handlers store n posts for the same minute and, with later, one
\* more for a later one.
RECURSIVE StoredPosts(_, _)
StoredPosts(n, later) ==
    IF later THEN schedule_post(StoredPosts(n, FALSE), LaterPostMs, NoTag)
    ELSE IF n = 0 THEN <<>>
    ELSE schedule_post(StoredPosts(n - 1, FALSE), 0, NoTag)

SchedulePosts(n, later) ==
    /\ posts_table = <<>>
    /\ clock = 0
    /\ posts_table' = StoredPosts(n, later)
    /\ UNCHANGED <<clock, sendVars, budget, posts, batches, batch_pos, batchVars>>

\* process_due_posts from its first line to the first await of its batch loop.
BatchPassStart ==
    /\ run.pc = "idle"
    /\ AllIdle
    /\ ~StopRequested(emergency_stopped)
    /\ ProcessDuePosts
    /\ UNCHANGED batchVars

\* One iteration of the batch loop up to the item loop of send_batch_to_all_channels:
\* the stop check of line 138, the wait for the batch time, the stop check of
\* sender.py line 219 and reset_burst.  A stop during the wait ends the pass at the
\* next iteration, with nothing sent, as a stop before it does.
BatchStart ==
    /\ run.pc = "idle"
    /\ ~PassIdle
    /\ AllIdle
    /\ IF StopRequested(emergency_stopped)
       THEN /\ posts' = <<>> /\ batches' = <<>> /\ batch_pos' = 0
            /\ UNCHANGED <<clock, rate_limiter, fast_in_batch, run>>
       ELSE LET batch == batches[batch_pos + 1]
                wait == batch.batch_time - clock
            IN  /\ clock' = IF wait > 0 /\ wait <= LookaheadMs THEN batch.batch_time
                            ELSE clock
                /\ rate_limiter' = reset_burst(rate_limiter)
                /\ fast_in_batch' = 0
                /\ run' = [RunIdle EXCEPT !.pc = "item", !.mode = "batch",
                                          !.batch = batch.batch_posts, !.i = 1]
                /\ UNCHANGED <<posts, batches, batch_pos>>
    /\ UNCHANGED <<retry_system, admin_notified, lock, lock_waiters, pc, acquire_now,
                   wake, send_log, notices, last_skip, last_acq, last_send, trail,
                   last_return, budget, posts_table, emergency_stopped, sender_posts_db,
                   deferred_retries, batch_log>>

\* The item loop from its stop check to `await asyncio.gather` (line 236-254).
ItemStart ==
    /\ run.pc = "item"
    /\ IF StopRequested(emergency_stopped)
       THEN /\ run' = [run EXCEPT !.pc = "decide", !.stop_at = run.i]
            /\ UNCHANGED <<retry_system, pc>>
       ELSE /\ retry_system' = FilterSkipped(retry_system)
            /\ pc' = [d \in Dests |->
                        IF should_skip(retry_system, d, clock).ret THEN "idle"
                        ELSE "created"]
            /\ run' = [run EXCEPT
                         !.pc = "gather",
                         !.results = [d \in Dests |->
                                        IF should_skip(retry_system, d, clock).ret
                                        THEN "none" ELSE "pending"],
                         !.fanned = @ \cup {run.batch[run.i]},
                         !.flag_at_fan = emergency_stopped]
    /\ UNCHANGED <<clock, rate_limiter, admin_notified, lock, lock_waiters, acquire_now,
                   wake, send_log, notices, last_skip, last_acq, last_send, trail,
                   fast_in_batch, last_return, budget, schedVars, emergency_stopped,
                   sender_posts_db, deferred_retries, batch_log>>

\* Mutant of CountSucceeded: the number of the results instead of their sum.
CountSucceeded_all(results) ==
    Cardinality({d \in Dests : results[d] \in {"true", "false"}})

\* `successful = sum(results)` (line 255).
CountSucceeded(results) == Cardinality({d \in Dests : results[d] = "true"})

\* gather returned: the failures are noted and the post is marked (line 254-271).
ItemJoin ==
    /\ run.pc = "gather"
    /\ AllJoined(run.results)
    /\ LET post_id == run.batch[run.i]
           failed == SelectSeq(channel_ids, LAMBDA d : run.results[d] = "false")
           successful == CountSucceeded(run.results)
       IN  /\ posts_table' = mark_posted(posts_table, post_id, clock, successful)
           /\ run' = [run EXCEPT
                        !.pc = IF run.i < Len(run.batch) THEN "item" ELSE "decide",
                        !.i = @ + 1,
                        !.failed_sends = @ \o [j \in DOMAIN failed |->
                                                 [post_id |-> post_id,
                                                  channel_id |-> failed[j]]],
                        !.results = NoResults]
    /\ UNCHANGED <<clock, sendVars, budget, posts, batches, batch_pos, emergency_stopped,
                   sender_posts_db, deferred_retries, batch_log>>

\* An awaited send raised: the exception leaves gather (or the retry loop),
\* send_batch_to_all_channels and process_due_posts, and is logged by
\* background_poster (scheduler_core.py line 225).  The tasks gather still had
\* running go on; the next pass is taken to start after they are done.
AwaitRaises ==
    /\ run.pc \in {"gather", "wait"}
    /\ \E d \in Dests : run.results[d] = "raised"
    /\ run' = RunIdle
    /\ posts' = <<>> /\ batches' = <<>> /\ batch_pos' = 0
    /\ batch_log' = [batch_log EXCEPT !.crashed = TRUE]
    /\ UNCHANGED <<clock, sendVars, budget, posts_table, emergency_stopped,
                   sender_posts_db, deferred_retries>>

\* The retry decision (line 282-296).
RetryDecision ==
    /\ run.pc = "decide"
    /\ LET defer == should_defer_retries(sender_posts_db, posts_table, clock)
           next_post_time == get_next_scheduled_post(posts_table)
           soon == /\ next_post_time # NoTime
                   /\ next_post_time - clock >= 0
                   /\ next_post_time - clock < DeferWindowMs
       IN  IF run.failed_sends = <<>> \/ StopRequested(emergency_stopped)
           THEN /\ ReturnFromBatch
                /\ UNCHANGED <<deferred_retries, batch_log>>
           ELSE /\ batch_log' = [batch_log EXCEPT !.decision =
                                    [mode |-> IF defer THEN "defer" ELSE "retry",
                                     failed |-> Len(run.failed_sends),
                                     pending_soon |-> soon,
                                     stopped |-> emergency_stopped]]
                /\ IF defer
                   THEN /\ deferred_retries' = deferred_retries \o
                               [j \in DOMAIN run.failed_sends |->
                                   DeferredEntry(run.failed_sends[j])]
                        /\ ReturnFromBatch
                   ELSE /\ run' = [run EXCEPT !.pc = "retry", !.k = 1]
                        /\ UNCHANGED <<deferred_retries, clock, posts, batches, batch_pos>>
    /\ UNCHANGED <<sendVars, budget, posts_table, emergency_stopped, sender_posts_db>>

\* One iteration of the retry loop up to its await (line 298-307), or its end.
RetryStep ==
    /\ run.pc = "retry"
    /\ IF run.k > Len(run.failed_sends)
       THEN /\ ReturnFromBatch
            /\ UNCHANGED <<sendVars, posts_table>>
       ELSE LET d == run.failed_sends[run.k].channel_id
                skip == should_skip(retry_system, d, clock).ret
                found == PostFound(posts_table, run.failed_sends[run.k].post_id)
            IN  /\ IF skip \/ found THEN SendEntry(d) ELSE SkipCheckOnly(d)
                /\ run' = IF ~skip /\ found
                          THEN [run EXCEPT !.pc = "wait", !.results[d] = "pending"]
                          ELSE [run EXCEPT !.k = @ + 1]
    /\ UNCHANGED <<budget, emergency_stopped, sender_posts_db, deferred_retries, batch_log>>

\* The retried send returned (line 307-308).
RetryJoin ==
    /\ run.pc = "wait"
    /\ run.mode = "batch"
    /\ run.results[run.failed_sends[run.k].channel_id] \in {"true", "false"}
    /\ run' = [run EXCEPT !.pc = "retry", !.k = @ + 1, !.results = NoResults]
    /\ UNCHANGED <<clock, sendVars, budget, schedVars, emergency_stopped,
                   sender_posts_db, deferred_retries, batch_log>>

\* background_poster calls process_deferred_retries when no post is pending or the
\* next one is more than 60 s away (scheduler_core.py line 202-217); the method
\* returns at once on an empty queue or when _should_defer_retries (line 327-331).
ProcessDeferredRetries ==
    /\ run.pc = "idle"
    /\ PassIdle
    /\ AllIdle
    /\ LET next_post_time == get_next_scheduled_post(posts_table)
       IN  next_post_time = NoTime \/ next_post_time - clock > DeferWindowMs
    /\ deferred_retries # <<>>
    /\ ~should_defer_retries(sender_posts_db, posts_table, clock)
    /\ run' = [RunIdle EXCEPT !.pc = "deferred", !.mode = "deferred", !.k = 1]
    /\ UNCHANGED <<clock, sendVars, budget, schedVars, emergency_stopped,
                   sender_posts_db, deferred_retries, batch_log>>

\* One iteration of the loop over the queue up to its await (line 340-362), or the
\* assignment of line 388 after it.  fetch is what the SELECT of the post does.
DeferredStep(fetch) ==
    /\ run.pc = "deferred"
    /\ IF run.k > Len(deferred_retries)
       THEN /\ fetch = "ok"
            /\ deferred_retries' = [j \in DOMAIN run.remaining |->
                                       deferred_retries[run.remaining[j]]]
            /\ run' = RunIdle
            /\ UNCHANGED <<clock, sendVars, budget, schedVars, batch_log>>
       ELSE LET e == deferred_retries[run.k]
                d == e.channel_id
                skip == should_skip(retry_system, d, clock).ret
                found == PostFound(posts_table, e.post_id)
            IN  IF skip
                THEN /\ fetch = "ok"
                     /\ SendEntry(d)
                     /\ run' = [run EXCEPT !.remaining = Append(@, run.k), !.k = @ + 1]
                     /\ UNCHANGED <<budget, deferred_retries, batch_log>>
                ELSE IF fetch = "error"
                THEN /\ budget.events > 0
                     /\ budget' = [budget EXCEPT !.events = @ - 1]
                     /\ SkipCheckOnly(d)
                     /\ run' = [run EXCEPT !.k = @ + 1]
                     /\ batch_log' = [batch_log EXCEPT !.left =
                            Left("store_error", e, e.attempts, notices, admin_notified)]
                     /\ UNCHANGED deferred_retries
                ELSE IF ~found
                THEN /\ SkipCheckOnly(d)
                     /\ run' = [run EXCEPT !.k = @ + 1]
                     /\ batch_log' = [batch_log EXCEPT !.left =
                            Left("not_found", e, e.attempts, notices, admin_notified)]
                     /\ UNCHANGED <<budget, deferred_retries>>
                ELSE /\ SendEntry(d)
                     /\ run' = [run EXCEPT !.pc = "wait", !.results[d] = "pending"]
                     /\ UNCHANGED <<budget, deferred_retries, batch_log>>
    /\ UNCHANGED <<emergency_stopped, sender_posts_db>>

\* Mutant of Exhausted: the attempts compared with > instead of >=.
Exhausted_late(attempts) == attempts > max_attempts

\* `retry_item['attempts'] >= max_attempts` (line 370).
Exhausted(attempts) == attempts >= max_attempts

\* The deferred send returned (line 362-386).
DeferredJoin ==
    /\ run.pc = "wait"
    /\ run.mode = "deferred"
    /\ LET e == deferred_retries[run.k]
           d == e.channel_id
           attempts == e.attempts + 1
       IN  /\ run.results[d] \in {"true", "false"}
           /\ IF run.results[d] = "true"
              THEN /\ run' = [run EXCEPT !.pc = "deferred", !.k = @ + 1,
                                         !.results = NoResults]
                   /\ batch_log' = [batch_log EXCEPT !.left =
                          Left("success", e, e.attempts, notices, admin_notified)]
                   /\ UNCHANGED <<deferred_retries, notices, admin_notified>>
              ELSE /\ deferred_retries' = [deferred_retries EXCEPT ![run.k].attempts = attempts]
                   /\ IF Exhausted(attempts)
                      THEN /\ IF ActionableDue(d, admin_notified)
                              THEN /\ notices' = [notices EXCEPT ![d].actionable = @ + 1]
                                   /\ admin_notified' = admin_notified \cup {d}
                              ELSE UNCHANGED <<notices, admin_notified>>
                           /\ run' = [run EXCEPT !.pc = "deferred", !.k = @ + 1,
                                                 !.results = NoResults]
                           /\ batch_log' = [batch_log EXCEPT !.left =
                                  Left("exhausted", e, attempts, notices', admin_notified')]
                      ELSE /\ run' = [run EXCEPT !.pc = "deferred", !.k = @ + 1,
                                                 !.remaining = Append(@, run.k),
                                                 !.results = NoResults]
                           /\ UNCHANGED <<notices, admin_notified, batch_log>>
    /\ UNCHANGED <<clock, rate_limiter, retry_system, lock, lock_waiters, pc, acquire_now,
                   wake, send_log, last_skip, last_acq, last_send, trail, fast_in_batch,
                   last_return, budget, schedVars, emergency_stopped, sender_posts_db>>

\* The steps of a send under the coordinator: what it returns goes to the awaiter.
BatchTaskStart(d) ==
    /\ TaskStart(d)
    /\ run' = IF pc'[d] = "idle" THEN [run EXCEPT !.results[d] = "false"] ELSE run
    /\ UNCHANGED <<emergency_stopped, sender_posts_db, deferred_retries, batch_log>>

BatchTransportOk(d) ==
    /\ TransportOk(d)
    /\ run' = [run EXCEPT !.results[d] = "true"]
    /\ deferred_retries' = [j \in DOMAIN deferred_retries |->
                               IF deferred_retries[j].channel_id = d
                               THEN [deferred_retries[j] EXCEPT !.clean = FALSE]
                               ELSE deferred_retries[j]]
    /\ UNCHANGED <<emergency_stopped, sender_posts_db, batch_log>>

BatchTransportFail(d, error) ==
    /\ budget.failures > 0
    /\ budget' = [budget EXCEPT !.failures = @ - 1]
    /\ batch_log.error_of[d] \in {{}, error}
    /\ TransportRaises(d, error)
    /\ run' = [run EXCEPT !.results[d] = "false"]
    /\ batch_log' = [batch_log EXCEPT !.error_of[d] = error]
    /\ UNCHANGED <<emergency_stopped, sender_posts_db, deferred_retries>>

\* The transport call raised an exception that is not a TelegramError: no except
\* clause of send_post_to_channel takes it (line 196) and it leaves the coroutine.
TransportRaisesOther(d) ==
    /\ pc[d] = "transport"
    /\ NoneCreated
    /\ budget.events > 0
    /\ budget' = [budget EXCEPT !.events = @ - 1]
    /\ pc' = [pc EXCEPT ![d] = "idle"]
    /\ run' = [run EXCEPT !.results[d] = "raised"]
    /\ UNCHANGED <<clock, rate_limiter, retry_system, admin_notified, lock, lock_waiters,
                   acquire_now, wake, send_log, notices, last_skip, last_acq, last_send,
                   trail, fast_in_batch, last_return, schedVars, emergency_stopped,
                   sender_posts_db, deferred_retries, batch_log>>

\* stopall_command and resumeall_command, run by the loop while the poster awaits.
StopAllCommand ==
    /\ AtResume
    /\ ~emergency_stopped
    /\ budget.events > 0
    /\ budget' = [budget EXCEPT !.events = @ - 1]
    /\ emergency_stopped' = TRUE
    /\ UNCHANGED <<clock, sendVars, schedVars, sender_posts_db, deferred_retries, run,
                   batch_log>>

ResumeAllCommand ==
    /\ AtResume
    /\ emergency_stopped
    /\ emergency_stopped' = FALSE
    /\ UNCHANGED <<clock, sendVars, budget, schedVars, sender_posts_db, deferred_retries,
                   run, batch_log>>

\* background_poster sleeps, pass after pass, until a skip entry has expired.
SleepUntilExpiry ==
    /\ run.pc = "idle"
    /\ PassIdle
    /\ AllIdle
    /\ \E d \in Dests : should_skip(retry_system, d, clock).ret
    /\ clock' = clock + SkipDurationMs
    /\ UNCHANGED <<sendVars, budget, schedVars, batchVars>>

\* The poster is stopped with a post pending: process_due_posts returns at its
\* first line and process_deferred_retries is not called, pass after pass, until
\* the rows of the posts that were sent are old enough for cleanup_old_posts.
SleepWhileStopped ==
    /\ run.pc = "idle"
    /\ PassIdle
    /\ AllIdle
    /\ emergency_stopped
    /\ LET next_post_time == get_next_scheduled_post(posts_table)
       IN  next_post_time # NoTime /\ next_post_time - clock <= DeferWindowMs
    /\ \E i \in DOMAIN posts_table :
          posts_table[i].posted /\ posts_table[i].posted_at >= clock - CleanupAgeMs
    /\ clock' = clock + CleanupAgeMs + MsPerSec
    /\ UNCHANGED <<sendVars, budget, schedVars, batchVars>>

\* cleanup_old_posts(minutes_old=30) of every second loop (line 221-224).
CleanupOldPosts ==
    /\ run.pc = "idle"
    /\ PassIdle
    /\ cleanup_old_posts(posts_table, clock) # posts_table
    /\ posts_table' = cleanup_old_posts(posts_table, clock)
    /\ UNCHANGED <<clock, sendVars, budget, posts, batches, batch_pos, batchVars>>

InitBatch ==
    /\ InitCommon
    /\ sender_posts_db \in BOOLEAN
    /\ budget = [failures |-> MaxFailures, events |-> MaxBatchEvents]

NextBatch ==
    \/ \E n \in 1..MaxBatchPosts, later \in BOOLEAN : SchedulePosts(n, later) /\ UNCHANGED <<loop, orphans, delivered>>
    \/ BatchPassStart /\ UNCHANGED <<loop, orphans, delivered>>
    \/ BatchStart /\ UNCHANGED <<loop, orphans, delivered>>
    \/ ItemStart /\ UNCHANGED <<loop, orphans, delivered>>
    \/ ItemJoin /\ UNCHANGED <<loop, orphans, delivered>>
    \/ AwaitRaises /\ UNCHANGED <<loop, orphans, delivered>>
    \/ RetryDecision /\ UNCHANGED <<loop, orphans, delivered>>
    \/ RetryStep /\ UNCHANGED <<loop, orphans, delivered>>
    \/ RetryJoin /\ UNCHANGED <<loop, orphans, delivered>>
    \/ ProcessDeferredRetries /\ UNCHANGED <<loop, orphans, delivered>>
    \/ \E fetch \in {"ok", "error"} : DeferredStep(fetch) /\ UNCHANGED <<loop, orphans, delivered>>
    \/ DeferredJoin /\ UNCHANGED <<loop, orphans, delivered>>
    \/ \E d \in Dests : BatchTaskStart(d) /\ UNCHANGED <<loop, orphans, delivered>>
    \/ \E d \in Dests : LockGranted(d) /\ UNCHANGED batchVars
    \/ \E d \in Dests : BurstWake(d) /\ UNCHANGED batchVars
    \/ \E d \in Dests : BatchTransportOk(d) /\ UNCHANGED <<loop, orphans, delivered>>
    \/ \E d \in Dests, error \in BatchErrors : BatchTransportFail(d, error) /\ UNCHANGED <<loop, orphans, delivered>>
    \/ \E d \in Dests : TransportRaisesOther(d) /\ UNCHANGED <<loop, orphans, delivered>>
    \/ StopAllCommand /\ UNCHANGED <<loop, orphans, delivered>>
    \/ ResumeAllCommand /\ UNCHANGED <<loop, orphans, delivered>>
    \/ SleepUntilExpiry /\ UNCHANGED <<loop, orphans, delivered>>
    \/ SleepWhileStopped /\ UNCHANGED <<loop, orphans, delivered>>
    \/ CleanupOldPosts /\ UNCHANGED <<loop, orphans, delivered>>

SpecBatch == InitBatch /\ [][NextBatch]_vars


(***************************************************************************)
(* SpecRetry: the same poster with a sender that was given the store, over *)
(* the longer runs a deferred retry needs to run out of attempts.  Posts    *)
(* are scheduled around two skip periods; the transport rejects sends,     *)
(* with one message per destination, as often as MaxRetryFailures times.   *)
(***************************************************************************)
MaxRetryFailures == 9

\* Two posts now, one after the skip duration and one 30 s after that one.
RetrySchedules ==
    { <<0>>, <<0, LaterPostMs>>,
      <<0, 0, SkipDurationMs + 10 * MsPerSec, SkipDurationMs + 10 * MsPerSec + LaterPostMs>> }

RECURSIVE StoredAt(_)
StoredAt(times) ==
    IF times = <<>> THEN <<>>
    ELSE schedule_post(StoredAt(SubSeq(times, 1, Len(times) - 1)), times[Len(times)], NoTag)

SchedulePostsAt(times) ==
    /\ posts_table = <<>>
    /\ clock = 0
    /\ posts_table' = StoredAt(times)
    /\ UNCHANGED <<clock, sendVars, budget, posts, batches, batch_pos, batchVars>>

InitRetry ==
    /\ InitCommon
    /\ sender_posts_db = TRUE
    /\ budget = [failures |-> MaxRetryFailures, events |-> 0]

NextRetry ==
    \/ \E times \in RetrySchedules : SchedulePostsAt(times) /\ UNCHANGED <<loop, orphans, delivered>>
    \/ BatchPassStart /\ UNCHANGED <<loop, orphans, delivered>>
    \/ BatchStart /\ UNCHANGED <<loop, orphans, delivered>>
    \/ ItemStart /\ UNCHANGED <<loop, orphans, delivered>>
    \/ ItemJoin /\ UNCHANGED <<loop, orphans, delivered>>
    \/ RetryDecision /\ UNCHANGED <<loop, orphans, delivered>>
    \/ RetryStep /\ UNCHANGED <<loop, orphans, delivered>>
    \/ RetryJoin /\ UNCHANGED <<loop, orphans, delivered>>
    \/ ProcessDeferredRetries /\ UNCHANGED <<loop, orphans, delivered>>
    \/ DeferredStep("ok") /\ UNCHANGED <<loop, orphans, delivered>>
    \/ DeferredJoin /\ UNCHANGED <<loop, orphans, delivered>>
    \/ \E d \in Dests : BatchTaskStart(d) /\ UNCHANGED <<loop, orphans, delivered>>
    \/ \E d \in Dests : LockGranted(d) /\ UNCHANGED batchVars
    \/ \E d \in Dests : BurstWake(d) /\ UNCHANGED batchVars
    \/ \E d \in Dests : BatchTransportOk(d) /\ UNCHANGED <<loop, orphans, delivered>>
    \/ \E d \in Dests, error \in BatchErrors : BatchTransportFail(d, error) /\ UNCHANGED <<loop, orphans, delivered>>
    \/ SleepUntilExpiry /\ UNCHANGED <<loop, orphans, delivered>>

SpecRetry == InitRetry /\ [][NextRetry]_vars

(***************************************************************************)
(* background_poster: the loop around process_due_posts.  A pass is taken  *)
(* as in SpecGroup (a batch marks its posts posted); what is added is the  *)
(* loop's own control flow: the try/except, the adaptive sleep, the two    *)
(* counters and the sleep at the end of every iteration.                   *)
(***************************************************************************)
MaxTicks == 3
MaxLoopPosts == 3
MaxLoopEvents == 2

sleep_lead_seconds == 2
sleep_min_seconds == 1
sleep_max_seconds == 15
sleep_due_seconds == 1
sleep_idle_seconds == 10
sleep_loop_seconds == 5
idle_after_seconds == 60
idle_retry_every == 2
cleanup_every == 2

\* Times at which the handlers store posts before the loop is observed, and the
\* places in the order of the column at which text that does not parse can stand.
LoopTimes == {0, 2 * MsPerSec, 20 * MsPerSec, 70 * MsPerSec}
ForeignKeys == {MsPerSec, 40 * MsPerSec}

loopFrame == <<sendVars, emergency_stopped, sender_posts_db, deferred_retries, run,
               batch_log, orphans, delivered>>

\* Mutant of LoopCatches: the loop has no handler for what its body raises.
LoopCatches_nothing(raised) == FALSE

\* `except Exception as e` around the body of the loop: every error the body
\* raises is caught and logged.
LoopCatches(raised) == TRUE

\* Where the loop goes when its body raises: to the sleep after the try
\* statement, or out of the coroutine when nothing catches the error.
Raise(lp, raised, now) ==
    [lp EXCEPT !.pc = IF LoopCatches(raised) THEN "backoff" ELSE "dead",
               !.raised = raised, !.kind = "none", !.since = now]

\* min(max(time_until_next - 2, 1), 15)
sleep_duration(time_until_next) ==
    Min(Max(time_until_next - sleep_lead_seconds * MsPerSec, sleep_min_seconds * MsPerSec),
        sleep_max_seconds * MsPerSec)

LoopStore(t) ==
    /\ loop.pc = "tick" /\ loop.ticks = 0
    /\ budget.items > 0
    /\ budget' = [budget EXCEPT !.items = @ - 1]
    /\ posts_table' = schedule_post(posts_table, t, NoTag)
    /\ UNCHANGED <<clock, posts, batches, batch_pos, loop, loopFrame>>

\* A row whose scheduled_time was written from outside the program.
LoopStoreForeign(sort_key) ==
    /\ loop.pc = "tick" /\ loop.ticks = 0
    /\ budget.items > 0
    /\ budget' = [budget EXCEPT !.items = @ - 1]
    /\ posts_table' = foreign_row(posts_table, sort_key)
    /\ UNCHANGED <<clock, posts, batches, batch_pos, loop, loopFrame>>

\* The loop enters its try statement and calls process_due_posts, which returns
\* at once when the stop flag is set and otherwise enters posting_lock.
TickStart ==
    /\ loop.pc = "tick"
    /\ loop.ticks < MaxTicks
    /\ loop' = [loop EXCEPT !.pc = IF StopRequested(emergency_stopped) THEN "after"
                                   ELSE "fetch",
                            !.ticks = @ + 1,
                            !.fetched = <<>>,
                            !.raised = "none",
                            !.kind = "none",
                            !.deferred_called = FALSE]
    /\ UNCHANGED <<clock, posts, batches, batch_pos, posts_table, budget, loopFrame>>

\* process_due_posts under the lock, up to its first sleep: the fetch (whose error
\* is caught inside, the pass then returning) and the grouping.
TickFetch(fetch) ==
    /\ loop.pc = "fetch"
    /\ fetch = "error" => budget.events > 0
    /\ budget' = IF fetch = "error" THEN [budget EXCEPT !.events = @ - 1] ELSE budget
    /\ LET due == IF fetch = "error" THEN <<>> ELSE get_due_posts(posts_table, clock)
           groups == group_due_posts(due)
       IN  /\ posts' = IF groups = <<>> THEN <<>> ELSE due
           /\ batches' = groups
           /\ loop' = [loop EXCEPT !.pc = IF groups = <<>> THEN "after" ELSE "pass",
                                   !.fetched = due,
                                   !.raised = IF fetch = "error" THEN "fetch" ELSE "none"]
    /\ batch_pos' = 0
    /\ UNCHANGED <<clock, posts_table, loopFrame>>

\* One iteration of the batch loop of process_due_posts, as SendBatch; or the
\* batch raises, which ends process_due_posts and reaches the loop's handler.
PassBatch(outcome) ==
    /\ loop.pc = "pass"
    /\ ~PassIdle
    /\ outcome = "raise" => budget.events > 0
    /\ budget' = IF outcome = "raise" THEN [budget EXCEPT !.events = @ - 1] ELSE budget
    /\ LET batch == batches[batch_pos + 1]
           wait == batch.batch_time - clock
           start == IF wait > 0 /\ wait <= LookaheadMs THEN batch.batch_time ELSE clock
           last == batch_pos + 1 = Len(batches)
       IN  IF outcome = "raise"
           THEN /\ clock' = start
                /\ posts' = <<>> /\ batches' = <<>> /\ batch_pos' = 0
                /\ loop' = Raise(loop, "batch", start)
                /\ UNCHANGED posts_table
           ELSE /\ clock' = start + MsPerSec
                /\ posts_table' = mark_all_posted(posts_table, batch.batch_posts, start)
                /\ IF last
                   THEN /\ posts' = <<>> /\ batches' = <<>> /\ batch_pos' = 0
                        /\ loop' = [loop EXCEPT !.pc = "after"]
                   ELSE /\ batch_pos' = batch_pos + 1
                        /\ UNCHANGED <<posts, batches, loop>>
    /\ UNCHANGED loopFrame

\* After process_due_posts: get_next_scheduled_post and the choice of the sleep.
\* process_deferred_retries, called on the idle paths, finds nothing deferred.
AfterPass(fetch) ==
    /\ loop.pc = "after"
    /\ fetch = "error" => budget.events > 0
    /\ budget' = IF fetch = "error" THEN [budget EXCEPT !.events = @ - 1] ELSE budget
    /\ LET next_post_time == get_next_scheduled_post(posts_table)
           time_until_next == next_post_time - clock
           kind == IF next_post_time = NoTime THEN "idle"
                   ELSE IF time_until_next > 0 THEN "adaptive" ELSE "due"
           far == kind = "adaptive" /\ time_until_next > idle_after_seconds * MsPerSec
       IN  loop' = IF fetch = "error" THEN Raise(loop, "next", clock)
                   ELSE [loop EXCEPT
                           !.pc = "sleep",
                           !.kind = kind,
                           !.time_until_next = IF kind = "idle" THEN 0 ELSE time_until_next,
                           !.sleep_duration =
                               IF kind = "idle" THEN sleep_idle_seconds * MsPerSec
                               ELSE IF kind = "due" THEN sleep_due_seconds * MsPerSec
                               ELSE sleep_duration(time_until_next),
                           !.idle_retry_counter =
                               IF far THEN (IF @ + 1 >= idle_retry_every THEN 0 ELSE @ + 1)
                               ELSE IF kind = "adaptive" THEN 0 ELSE @,
                           !.deferred_called =
                               \/ kind = "idle"
                               \/ far /\ loop.idle_retry_counter + 1 >= idle_retry_every,
                           !.since = clock]
    /\ UNCHANGED <<clock, posts, batches, batch_pos, posts_table, loopFrame>>

\* The sleep chosen by AfterPass ends; cleanup_counter is raised and every
\* second iteration cleanup_old_posts runs, which may raise.
SleepEnds(cleanup) ==
    /\ loop.pc = "sleep"
    /\ cleanup = "error" => budget.events > 0 /\ loop.cleanup_counter + 1 >= cleanup_every
    /\ budget' = IF cleanup = "error" THEN [budget EXCEPT !.events = @ - 1] ELSE budget
    /\ clock' = clock + loop.sleep_duration
    /\ LET counted == [loop EXCEPT !.cleanup_counter = @ + 1]
       IN  IF counted.cleanup_counter < cleanup_every
           THEN /\ loop' = [counted EXCEPT !.pc = "backoff"]
                /\ UNCHANGED posts_table
           ELSE IF cleanup = "error"
           THEN /\ loop' = Raise(counted, "cleanup", clock')
                /\ UNCHANGED posts_table
           ELSE /\ loop' = [counted EXCEPT !.pc = "backoff", !.cleanup_counter = 0]
                /\ posts_table' = cleanup_old_posts(posts_table, clock')
    /\ UNCHANGED <<posts, batches, batch_pos, loopFrame>>

\* `await asyncio.sleep(5)`, the last statement of the loop body, after the try
\* statement: it runs in every iteration, and the next iteration follows.
BackoffEnds ==
    /\ loop.pc = "backoff"
    /\ clock' = clock + sleep_loop_seconds * MsPerSec
    /\ loop' = [loop EXCEPT !.pc = "tick",
                            !.last = [raised |-> loop.raised, kind |-> loop.kind,
                                      time_until_next |-> loop.time_until_next,
                                      suspended |-> clock' - loop.since,
                                      deferred_called |-> loop.deferred_called]]
    /\ UNCHANGED <<posts, batches, batch_pos, posts_table, budget, loopFrame>>

InitLoop ==
    /\ InitCommon
    /\ sender_posts_db = FALSE
    /\ budget = [events |-> MaxLoopEvents, early |-> 0, items |-> MaxLoopPosts,
                 batches |-> 0]

NextLoop ==
    \/ \E t \in LoopTimes : LoopStore(t)
    \/ \E sort_key \in ForeignKeys : LoopStoreForeign(sort_key)
    \/ TickStart
    \/ \E fetch \in {"ok", "error"} : TickFetch(fetch)
    \/ \E outcome \in {"ok", "raise"} : PassBatch(outcome)
    \/ \E fetch \in {"ok", "error"} : AfterPass(fetch)
    \/ \E cleanup \in {"ok", "error"} : SleepEnds(cleanup)
    \/ BackoffEnds

SpecLoop == InitLoop /\ [][NextLoop]_vars

\* asyncio runs a coroutine that can continue: every sleep ends, every call
\* returns or raises, and the loop statement leads to the next iteration.  What
\* is asked of the fetch is nothing: no claim below depends on it.
SpecLoopLive ==
    /\ SpecLoop
    /\ WF_vars(TickStart)
    /\ WF_vars(\E outcome \in {"ok", "raise"} : PassBatch(outcome))
    /\ WF_vars(\E fetch \in {"ok", "error"} : AfterPass(fetch))
    /\ WF_vars(\E cleanup \in {"ok", "error"} : SleepEnds(cleanup))
    /\ WF_vars(BackoffEnds)

(***************************************************************************)
(* SpecOverlap: fan-outs that follow a gather that raised.  gather is      *)
(* called without return_exceptions (sender.py line 254): when one send    *)
(* raises an exception that is not a TelegramError, the exception leaves   *)
(* send_batch_to_all_channels and process_due_posts at once, while the     *)
(* other sends of the fan-out stay suspended in their transport calls.     *)
(* background_poster logs the exception, sleeps 5 s and fans the same      *)
(* post out again; the sends left behind complete whenever the transport   *)
(* answers them.                                                            *)
(***************************************************************************)
MaxOverlapItems == 5
MaxOverlapEvents == 2
alert_threshold == 5

overlapFrame == <<emergency_stopped, sender_posts_db, deferred_retries, run, batch_log,
                  loop, delivered>>

\* SmartRetrySystem.needs_alert
needs_alert(rs, d) == rs.consecutive_failures[d] >= alert_threshold

\* The critical bucket of SmartRetrySystem.get_health_report.
critical(rs) == {d \in Dests : rs.consecutive_failures[d] >= alert_threshold}

\* The send to d raises an exception that is not a TelegramError while every
\* other send of the fan-out has returned or is in its transport call: gather
\* raises, and the sends still in the transport call are left behind.
GatherRaises(d) ==
    /\ pc[d] = "transport"
    /\ \A e \in Dests : pc[e] \in {"idle", "transport"}
    /\ budget.events > 0
    /\ budget' = [budget EXCEPT !.events = @ - 1]
    /\ orphans' = [e \in Dests |->
                      IF e # d /\ pc[e] = "transport" THEN orphans[e] + 1 ELSE orphans[e]]
    /\ pc' = [e \in Dests |-> "idle"]
    /\ UNCHANGED <<clock, rate_limiter, retry_system, admin_notified, lock, lock_waiters,
                   acquire_now, wake, send_log, notices, last_skip, last_acq, last_send,
                   trail, fast_in_batch, last_return, schedVars, overlapFrame>>

\* The transport call of a send left behind returns: sender.py line 188-194.
OrphanOk(d) ==
    /\ orphans[d] > 0
    /\ orphans' = [orphans EXCEPT ![d] = @ - 1]
    /\ rate_limiter' = report_success(rate_limiter, clock)
    /\ retry_system' = record_success(retry_system, d)
    /\ admin_notified' = admin_notified \ {d}
    /\ last_send' = SendRecord(d, "success", "none", retry_system, retry_system')
    /\ trail' = [trail EXCEPT ![d] = Trail(@, "success", retry_system', d)]
    /\ UNCHANGED <<clock, lock, lock_waiters, pc, acquire_now, wake, send_log, notices,
                   last_skip, last_acq, fast_in_batch, last_return, budget, schedVars,
                   overlapFrame>>

\* The transport call of a send left behind raises TelegramError(error):
\* sender.py line 196-214.
OrphanRaises(d, error) ==
    /\ orphans[d] > 0
    /\ orphans' = [orphans EXCEPT ![d] = @ - 1]
    /\ rate_limiter' = IF error \cap FloodPhrases # {}
                       THEN report_flood_control(rate_limiter, clock)
                       ELSE rate_limiter
    /\ retry_system' = record_failure(retry_system, d, error, clock)
    /\ LET failure_count == retry_system'.consecutive_failures[d]
       IN  IF failure_count = 1
           THEN /\ notices' = [notices EXCEPT ![d].first = @ + 1]
                /\ UNCHANGED admin_notified
           ELSE IF failure_count >= 3 /\ ActionableDue(d, admin_notified)
           THEN /\ notices' = [notices EXCEPT ![d].actionable = @ + 1]
                /\ admin_notified' = admin_notified \cup {d}
           ELSE UNCHANGED <<notices, admin_notified>>
    /\ last_send' = SendRecord(d, "failed", classify_error(error), retry_system,
                                retry_system')
    /\ trail' = [trail EXCEPT ![d] = Trail(@, classify_error(error), retry_system', d)]
    /\ UNCHANGED <<clock, lock, lock_waiters, pc, acquire_now, wake, send_log,
                   last_skip, last_acq, fast_in_batch, last_return, budget, schedVars,
                   overlapFrame>>

\* One message of each classification that counts (permanent, temporary).
OverlapErrors == {{"chat not found"}, {"timed out"}}

InitOverlap ==
    /\ InitCommon
    /\ sender_posts_db = FALSE
    /\ budget = [events |-> MaxOverlapEvents, early |-> 0, items |-> MaxOverlapItems,
                 batches |-> MaxRateBatches - 1]

NextOverlap ==
    \/ \E first \in BOOLEAN : FanOutItem(first) /\ UNCHANGED batchVars
    \/ \E d \in Dests : TaskStart(d) /\ UNCHANGED batchVars
    \/ \E d \in Dests : LockGranted(d) /\ UNCHANGED batchVars
    \/ \E d \in Dests : BurstWake(d) /\ UNCHANGED batchVars
    \/ \E d \in Dests : TransportOk(d) /\ UNCHANGED batchVars
    \/ \E d \in Dests, error \in OverlapErrors : TransportFail(d, error) /\ UNCHANGED batchVars
    \/ \E d \in Dests : GatherRaises(d)
    \/ \E d \in Dests : OrphanOk(d)
    \/ \E d \in Dests, error \in OverlapErrors : OrphanRaises(d, error)

SpecOverlap == InitOverlap /\ [][NextOverlap]_vars

(***************************************************************************)
(* SpecFail: the sender against destinations that never accept a send.     *)
(* Every transport call raises a TelegramError that classifies as          *)
(* permanent or as temporary; between two sends the skip period may pass.  *)
(***************************************************************************)
MaxFailEvents == 7
notify_threshold == 3

FailErrors == {{"chat not found"}, {"timed out"}}
FailTimeSteps == {SkipDurationMs}

InitFail ==
    /\ InitCommon
    /\ sender_posts_db = FALSE
    /\ budget = [events |-> MaxFailEvents, early |-> 0, items |-> 0, batches |-> 0]

NextFail ==
    \/ \E d \in Dests : DirectSend(d) /\ UNCHANGED batchVars
    \/ \E d \in Dests : LockGranted(d) /\ UNCHANGED batchVars
    \/ \E d \in Dests : BurstWake(d) /\ UNCHANGED batchVars
    \/ \E d \in Dests, error \in FailErrors : TransportFail(d, error) /\ UNCHANGED batchVars
    \/ \E dt \in FailTimeSteps : TimePasses(dt) /\ UNCHANGED batchVars

SpecFail == InitFail /\ [][NextFail]_vars

(***************************************************************************)
(* SpecMark: the poster of SpecBatch with every transport failure a        *)
(* TelegramError, a store whose UPDATE of the post can fail, and the       *)
(* record of what the transport accepted.                                  *)
(***************************************************************************)
MaxMarkEvents == 1

\* The post the send awaited for d carries: the item of the fan-out, the entry of
\* the retry loop or the entry of the deferred pass.
SendingPost ==
    IF run.pc = "gather" THEN run.batch[run.i]
    ELSE IF run.mode = "batch" THEN run.failed_sends[run.k].post_id
    ELSE deferred_retries[run.k].post_id

Deliver(log, post_id, d) ==
    IF <<post_id, d>> \in log.once
    THEN [log EXCEPT !.again = @ \cup {<<post_id, d>>}]
    ELSE [log EXCEPT !.once = @ \cup {<<post_id, d>>}]

\* bot.send_message returned for d (sender.py line 158-194).
MarkTransportOk(d) ==
    /\ BatchTransportOk(d)
    /\ delivered' = Deliver(delivered, SendingPost, d)
    /\ UNCHANGED <<loop, orphans>>

\* gather returned and the UPDATE of line 264-271 raises: the exception leaves
\* send_batch_to_all_channels and process_due_posts with the post unmarked and
\* the failures of the batch forgotten, and is logged by background_poster.
ItemJoinRaises ==
    /\ run.pc = "gather"
    /\ AllJoined(run.results)
    /\ budget.events > 0
    /\ budget' = [budget EXCEPT !.events = @ - 1]
    /\ run' = RunIdle
    /\ posts' = <<>> /\ batches' = <<>> /\ batch_pos' = 0
    /\ batch_log' = [batch_log EXCEPT !.crashed = TRUE]
    /\ delivered' = [delivered EXCEPT !.unmarked = @ \cup {run.batch[run.i]}]
    /\ UNCHANGED <<clock, sendVars, posts_table, emergency_stopped, sender_posts_db,
                   deferred_retries, loop, orphans>>

InitMark ==
    /\ InitCommon
    /\ sender_posts_db \in BOOLEAN
    /\ budget = [failures |-> MaxFailures, events |-> MaxMarkEvents]

NextMark ==
    \/ \E n \in 1..MaxBatchPosts, later \in BOOLEAN : SchedulePosts(n, later) /\ UNCHANGED <<loop, orphans, delivered>>
    \/ BatchPassStart /\ UNCHANGED <<loop, orphans, delivered>>
    \/ BatchStart /\ UNCHANGED <<loop, orphans, delivered>>
    \/ ItemStart /\ UNCHANGED <<loop, orphans, delivered>>
    \/ ItemJoin /\ UNCHANGED <<loop, orphans, delivered>>
    \/ ItemJoinRaises
    \/ RetryDecision /\ UNCHANGED <<loop, orphans, delivered>>
    \/ RetryStep /\ UNCHANGED <<loop, orphans, delivered>>
    \/ RetryJoin /\ UNCHANGED <<loop, orphans, delivered>>
    \/ ProcessDeferredRetries /\ UNCHANGED <<loop, orphans, delivered>>
    \/ DeferredStep("ok") /\ UNCHANGED <<loop, orphans, delivered>>
    \/ DeferredJoin /\ UNCHANGED <<loop, orphans, delivered>>
    \/ \E d \in Dests : BatchTaskStart(d) /\ UNCHANGED <<loop, orphans, delivered>>
    \/ \E d \in Dests : LockGranted(d) /\ UNCHANGED batchVars
    \/ \E d \in Dests : BurstWake(d) /\ UNCHANGED batchVars
    \/ \E d \in Dests : MarkTransportOk(d)
    \/ \E d \in Dests, error \in BatchErrors : BatchTransportFail(d, error) /\ UNCHANGED <<loop, orphans, delivered>>
    \/ StopAllCommand /\ UNCHANGED <<loop, orphans, delivered>>
    \/ ResumeAllCommand /\ UNCHANGED <<loop, orphans, delivered>>
    \/ SleepUntilExpiry /\ UNCHANGED <<loop, orphans, delivered>>
    \/ SleepWhileStopped /\ UNCHANGED <<loop, orphans, delivered>>

SpecMark == InitMark /\ [][NextMark]_vars

(***************************************************************************)
(* The claims about the batch coordinator, under SpecBatch.                *)
(***************************************************************************)
\* C20: for the sender as main constructs it (without a store), a retry decision
\* that finds another unposted post scheduled within the next 60 seconds defers
\* every failure instead of retrying it.
C20_DefersWhenPostPending ==
    (/\ ~sender_posts_db
     /\ batch_log.decision.mode # "none"
     /\ batch_log.decision.pending_soon)
        => batch_log.decision.mode = "defer"

C14_SendNeverRaises ==
    /\ \A d \in Dests : run.results[d] # "raised"
    /\ ~batch_log.crashed

\* C13: inside a batch the record of an item is written exactly when its own
\* fan-out has been joined, no fan-out begins while the stop flag is set, and when
\* the item loop is left at item k+1 because of the flag, items 1..k are posted
\* and items k+1..n are unposted with no send started for them.
C13_StopBetweenItems ==
    run.mode = "batch" =>
        /\ \A j \in DOMAIN run.batch :
              IsPosted(posts_table, run.batch[j]) <=> j < run.i
        /\ \A j \in DOMAIN run.batch :
              run.batch[j] \in run.fanned =>
                  j < run.i \/ (j = run.i /\ run.pc = "gather")
        /\ ~run.flag_at_fan
        /\ run.stop_at # 0 =>
              /\ run.pc = "decide"
              /\ run.i = run.stop_at
              /\ emergency_stopped
              /\ AllIdle

C13_Witness ==
    /\ run.pc = "decide"
    /\ run.stop_at = 2
    /\ Len(run.batch) >= 2
    /\ IsPosted(posts_table, run.batch[1])
    /\ \A j \in 2..Len(run.batch) :
          ~IsPosted(posts_table, run.batch[j]) /\ run.batch[j] \notin run.fanned

C17_OneNoticeOutstanding ==
    [][\A d \in Dests :
          /\ notices'[d].actionable # notices[d].actionable =>
                /\ notices'[d].actionable = notices[d].actionable + 1
                /\ d \notin admin_notified
                /\ d \in admin_notified'
          /\ (d \in admin_notified /\ d \notin admin_notified') =>
                /\ pc[d] = "transport"
                /\ last_send'.d = d
                /\ last_send'.outcome = "success"]_vars

\* A deferred retry ran out of attempts for a destination that send_post_to_channel
\* had marked at its third consecutive failure: one notice, not two.
C17_Witness ==
    /\ batch_log.left.why = "exhausted"
    /\ ~batch_log.left.notified0
    /\ batch_log.left.alerts = 1
    /\ notices[batch_log.left.d].actionable = 1
    /\ batch_log.error_of[batch_log.left.d] = {"timed out"}
    /\ batch_log.left.d \in admin_notified

MaxBudgetItems == 2
MaxBudgetEvents == 1
success_threshold == 50
StreakBefore == success_threshold - 2

TokenLevels == {0, TokenUnit \div 2, TokenUnit, 2 * TokenUnit, max_tokens}

LimiterStates ==
    { [RateLimiterInit EXCEPT !.burst_available = 0,
                              !.tokens = tk,
                              !.flood_multiplier = m,
                              !.consecutive_successes = n]
        : tk \in TokenLevels, m \in {MultUnit \div 2, MultUnit}, n \in {0, StreakBefore} }

InitBudget ==
    /\ InitButLimiter
    /\ rate_limiter \in LimiterStates
    /\ sender_posts_db = FALSE
    /\ budget = [events |-> MaxBudgetEvents, early |-> 0, items |-> MaxBudgetItems,
                 batches |-> MaxRateBatches - 1]

NextBudget ==
    \/ \E first \in BOOLEAN : FanOutItem(first) /\ UNCHANGED batchVars
    \/ \E d \in Dests : TaskStart(d) /\ UNCHANGED batchVars
    \/ \E d \in Dests : LockGranted(d) /\ UNCHANGED batchVars
    \/ \E d \in Dests : BurstWake(d) /\ UNCHANGED batchVars
    \/ \E d \in Dests : TokenWake(d) /\ UNCHANGED batchVars
    \/ \E d \in Dests : TransportOk(d) /\ UNCHANGED batchVars
    \/ \E d \in Dests : TransportFlood(d) /\ UNCHANGED batchVars

SpecBudget == InitBudget /\ [][NextBudget]_vars

(***************************************************************************)
(* The claims about the rate limiter as the sender calls it.               *)
(***************************************************************************)
\* C23: when the re-check after the per-channel wait of acquire still finds the
\* destination at its ceiling, the call of send_post_to_channel ends without a
\* transport send to that destination.
C23_AbortedAcquireSendsNothing ==
    [][ \A d \in Dests :
           (/\ pc[d] = "chan_sleep"
            /\ pc'[d] # "chan_sleep"
            /\ ~check_per_channel_limit(rate_limiter, d, clock').can_send)
               => (pc'[d] = "idle" /\ send_log'[d] = send_log[d]) ]_vars

\* C28: a failed send calls report_flood_control exactly when classify_error gives
\* rate_limit for the error it failed with, whatever the message of the error.
C28_OverloadIffRateLimited ==
    [][ \A d \in Dests, error \in ErrorMessages :
           TransportRaises(d, error) =>
               rate_limiter' = IF classify_error(error) = "rate_limit"
                               THEN report_flood_control(rate_limiter, clock)
                               ELSE rate_limiter ]_vars

\* C25: every report_flood_control leaves the burst allowance and the success
\* counter at 0 and the multiplier within (0, 1.0]; called at 1.0 it leaves 0.5,
\* and called again at 0.5 it leaves at most 0.25.
C25_OverloadHalves ==
    [][ \A d \in Dests, error \in ErrorMessages :
           (error \cap FloodPhrases # {} /\ TransportRaises(d, error)) =>
               /\ rate_limiter'.burst_available = 0
               /\ rate_limiter'.consecutive_successes = 0
               /\ rate_limiter'.flood_multiplier \in 1..MultUnit
               /\ rate_limiter.flood_multiplier = MultUnit =>
                      2 * rate_limiter'.flood_multiplier = MultUnit
               /\ 2 * rate_limiter.flood_multiplier = MultUnit =>
                      4 * rate_limiter'.flood_multiplier <= MultUnit ]_vars

\* C24: the bucket never holds less than 0 or more than max_tokens tokens, whatever
\* the other sends of the fan-out report while an acquire is suspended.
C24_TokensWithinBucket ==
    /\ rate_limiter.tokens >= 0
    /\ rate_limiter.tokens <= max_tokens

\* C26: the multiplier is raised only below 1.0, after the cooldown and with the
\* success counter at the threshold, by one step, and the raise resets the counter.
C26_RaiseResetsCounter ==
    [][ rate_limiter'.flood_multiplier > rate_limiter.flood_multiplier =>
           /\ rate_limiter.flood_multiplier < MultUnit
           /\ clock - rate_limiter.last_flood_time > WindowMs
           /\ rate_limiter.consecutive_successes + 1 >= success_threshold
           /\ rate_limiter'.flood_multiplier = rate_limiter.flood_multiplier + 1
           /\ rate_limiter'.consecutive_successes = 0 ]_vars

(***************************************************************************)
(* Further claims about the batch coordinator, under SpecBatch.            *)
(***************************************************************************)
\* C29: the step that joins the fan-out of an item writes its row with posted,
\* posted_at = now and successful_posts = the number of the sends of that fan-out
\* that returned true; a send of the fan-out returns true exactly when its
\* transport call succeeded; the retry loop and the deferred pass leave the rows
\* as they are.
C29_PersistedCount ==
    [][ /\ (run.pc = "gather" /\ run'.pc \in {"item", "decide"}) =>
               \E i \in DOMAIN posts_table' :
                  /\ posts_table'[i].id = run.batch[run.i]
                  /\ posts_table'[i].posted
                  /\ posts_table'[i].posted_at = clock
                  /\ posts_table'[i].successful_posts =
                         Cardinality({d \in Dests : run.results[d] = "true"})
        /\ \A d \in Dests :
               (run.results[d] # "true" /\ run'.results[d] = "true") <=>
                   (/\ pc[d] = "transport" /\ pc'[d] = "idle"
                    /\ rate_limiter' = report_success(rate_limiter, clock))
        /\ run.pc \in {"retry", "wait", "deferred"} => posts_table' = posts_table ]_vars

\* Both destinations are skip-listed when the second post of a batch is fanned
\* out: no send is made for it and it is written as posted with 0 successes.
C29_Witness ==
    /\ run.mode = "batch"
    /\ run.i = 3
    /\ \A d \in Dests : should_skip(retry_system, d, clock).ret /\ Len(send_log[d]) = 1
    /\ \E i \in DOMAIN posts_table :
          /\ posts_table[i].id = run.batch[2]
          /\ posts_table[i].posted
          /\ posts_table[i].successful_posts = 0

\* The skip entry of d is there and younger than the skip duration.
Unexpired(d) ==
    /\ InSkipList(retry_system, d)
    /\ clock - retry_system.skip_list[d] < SkipDurationMs

C30_SuspendsForChosenSleep ==
    loop.last.raised = "none" =>
        /\ loop.last.kind = "adaptive" =>
               loop.last.suspended = sleep_duration(loop.last.time_until_next)
        /\ loop.last.kind = "idle" =>
               loop.last.suspended = sleep_idle_seconds * MsPerSec

\* The fetched rows whose scheduled_time is a datetime or text that parses.
WellFormed(rows) == SelectSeq(rows, LAMBDA p : p.parses)

\* C22: a due row whose scheduled_time does not parse is in no group and is never
\* marked posted; the rows of the same fetch that parse are grouped, each once and
\* in the order of the fetch, and are all posted when the pass of that tick ends
\* without an error; the row makes nothing raise and the loop goes on.
C22_MalformedLeftOut ==
    /\ loop.pc = "pass" => Flatten(batches) = Ids(WellFormed(posts))
    /\ \A i \in DOMAIN posts_table : ~posts_table[i].parses => ~posts_table[i].posted
    /\ (loop.pc \in {"after", "sleep", "backoff"} /\ loop.raised = "none") =>
           \A k \in DOMAIN loop.fetched :
               loop.fetched[k].parses => IsPosted(posts_table, loop.fetched[k].id)
    /\ loop.raised # "none" => budget.events < MaxLoopEvents
    /\ loop.pc # "dead"

C22_Witness ==
    /\ loop.pc = "after"
    /\ loop.raised = "none"
    /\ \E k, j \in DOMAIN loop.fetched :
          /\ ~loop.fetched[k].parses
          /\ ~IsPosted(posts_table, loop.fetched[k].id)
          /\ loop.fetched[j].parses
          /\ IsPosted(posts_table, loop.fetched[j].id)
          /\ k < j

\* C21: no error raised inside a tick ends the loop.  After a tick in which the
\* fetch, a batch, get_next_scheduled_post or the cleanup raised, a further tick is
\* eventually started (as long as the bound on ticks allows one); when the error
\* reached the handler of the loop, that tick starts 5 seconds after the error.
C21_LoopGoesOn ==
    /\ \A n \in 1..(MaxTicks - 1) :
           (loop.ticks = n /\ loop.raised # "none") ~> (loop.ticks = n + 1)
    /\ [](loop.pc # "dead")
    /\ [](loop.last.raised \in {"batch", "next", "cleanup"} =>
              loop.last.suspended = sleep_loop_seconds * MsPerSec)

C21_Witness ==
    /\ loop.last.raised = "batch"
    /\ loop.ticks = 2
    /\ loop.pc = "pass"

\* C31: the loop calls process_deferred_retries only in a tick that finds no
\* unposted post within the next 60 seconds, and never in two ticks that follow
\* each other, whether a post lies far ahead or none is stored.
C31_DeferredPassDebounced ==
    (loop.pc = "sleep" /\ loop.deferred_called) =>
        /\ \/ loop.kind = "idle"
           \/ loop.time_until_next > idle_after_seconds * MsPerSec
        /\ ~loop.last.deferred_called

(***************************************************************************)
(* The claims about the failure counter, under SpecOverlap.                *)
(***************************************************************************)
\* C32: the count of consecutive failures of every destination is at most 3, so
\* needs_alert is false for every destination and the critical bucket of the
\* health report is empty.
C32_FailuresAtMostThree ==
    \A d \in Dests :
        /\ retry_system.consecutive_failures[d] <= 3
        /\ ~needs_alert(retry_system, d)
        /\ critical(retry_system) = {}

(***************************************************************************)
(* The claims about the notices, under SpecFail.                           *)
(***************************************************************************)
\* C33: a destination all of whose sends fail gets an actionable-failure notice.
\* No send succeeds under SpecFail and every failure is permanent or temporary:
\* once three failures of a destination are in its failure history, the
\* actionable notice has been emitted.
C33_ActionableAfterFailures ==
    \A d \in Dests :
        retry_system.failure_history[d] >= notify_threshold =>
            notices[d].actionable >= 1

\* C34: a first-failure notice is emitted at most once per run of consecutive
\* failures: a step that emits one for a destination emits exactly one and finds
\* the counter of the destination at 0, so that between two resets of the counter
\* there is at most one.
C34_FirstNoticeOncePerRun ==
    [][ \A d \in Dests :
          notices'[d].first # notices[d].first =>
              /\ notices'[d].first = notices[d].first + 1
              /\ retry_system.consecutive_failures[d] = 0 ]_vars

(***************************************************************************)
(* A further claim about the grouping, under SpecGroup, where a batch is   *)
(* sent at the instant process_due_posts hands it to the sender and        *)
(* posted_at keeps that instant.                                           *)
(***************************************************************************)
\* C35: no post is sent before its own scheduled_time, whether it joined its
\* group by the 5 seconds or by the batch_id.
C35_NotBeforeScheduledTime ==
    \A i \in DOMAIN posts_table :
        posts_table[i].posted =>
            posts_table[i].posted_at >= posts_table[i].scheduled_time

\* The row of the posts table with the given id.
RowOf(table, post_id) == table[CHOOSE i \in DOMAIN table : table[i].id = post_id]

\* C35, as the code has it: no batch is sent before its batch time, which is the
\* scheduled_time of its first post.  A post that joined the group is sent with
\* it, before its own scheduled_time by at most the 5 seconds of the grouping
\* when it has no batch_id and by at most the lookahead of the fetch otherwise.
C35_NotBeforeBatchTime ==
    [][ (~PassIdle /\ clock' # clock) =>
          LET batch == batches[batch_pos + 1]
          IN  \A k \in DOMAIN batch.batch_posts :
                LET row == RowOf(posts_table', batch.batch_posts[k])
                IN  /\ row.posted
                    /\ row.posted_at >= batch.batch_time
                    /\ k = 1 => row.posted_at >= row.scheduled_time
                    /\ row.scheduled_time - row.posted_at <=
                           IF row.batch_id = NoTag THEN GroupWindowMs
                           ELSE LookaheadMs ]_vars

C35_Witness ==
    \E i \in DOMAIN posts_table :
        /\ posts_table[i].posted
        /\ posts_table[i].batch_id # NoTag
        /\ posts_table[i].scheduled_time - posts_table[i].posted_at > GroupWindowMs

(***************************************************************************)
(* Further claims about the poster and the stop flag, under SpecBatch.     *)
(***************************************************************************)
\* C36: while emergency_stopped is set no send is started: a destination whose
\* send coroutine is idle stays idle over every step taken with the flag set (the
\* tasks of a fan-out that was started before are not idle and go on).
C36_NoSendWhileStopped ==
    [][ \A d \in Dests :
          (emergency_stopped /\ pc[d] = "idle") => pc'[d] = "idle" ]_vars

\* C38: every failure recorded by the main phase is, when the batch call returns,
\* either re-attempted by the immediate retry or in the deferred queue.  Stated on
\* the two steps that dispose of the failures: the retry decision either opens the
\* retry loop or appends every failure to the queue, and an iteration of the retry
\* loop whose post is still stored starts the send of its entry.
C38_FailureRetriedOrDeferred ==
    [][ /\ (run.pc = "decide" /\ run.failed_sends # <<>>) =>
              \/ run'.pc = "retry"
              \/ Len(deferred_retries') = Len(deferred_retries) + Len(run.failed_sends)
        /\ ( /\ run.pc = "retry"
             /\ run.k <= Len(run.failed_sends)
             /\ PostFound(posts_table, run.failed_sends[run.k].post_id) ) =>
              run'.pc = "wait" ]_vars


\* C39: after the retry action, the keep-and-resume action or a successful test
\* action on a skip-listed destination d, should_skip(d) returns false, so the next
\* fan-out sends to d.
C39_OperatorActionUnskips ==
    [][ \A d \in Dests :
          InSkipList(retry_system, d) =>
             /\ RetryChannelAction(d) => ~should_skip(retry_system', d, clock').ret
             /\ ~should_skip(test_channel_action(retry_system, d, TRUE), d, clock).ret
             /\ ~should_skip(resume_channel_action(retry_system, d), d, clock).ret ]_vars


\* C40: with the stop flag clear and the store answering, every well-formed
\* undispatched post whose scheduled time has been reached is eventually marked
\* dispatched, whatever the outcome of its sends.  A post is marked by the pass
\* that fetched it, after the sends of its batch; the property is stated on that
\* step: when the batch of a pass is over, each of its posts that was due is marked.
C40_ReachedPostMarked ==
    [][ (loop.pc = "pass" /\ ~PassIdle /\ ~emergency_stopped /\ loop.raised = "none") =>
          LET batch == batches[batch_pos + 1]
          IN  \A k \in DOMAIN batch.batch_posts :
                 LET before == RowOf(posts_table, batch.batch_posts[k])
                     after == RowOf(posts_table', batch.batch_posts[k])
                 IN  (before.parses /\ before.scheduled_time <= clock') => after.posted ]_vars


\* The pair the retry loop or the deferred pass is about to send.
RetriedPair ==
    IF run.mode = "batch"
    THEN <<run.failed_sends[run.k].post_id, run.failed_sends[run.k].channel_id>>
    ELSE <<deferred_retries[run.k].post_id, deferred_retries[run.k].channel_id>>

\* C37 as stated: with every transport failure a TelegramError, no (post,
\* destination) pair is delivered a second time.
C37_AtMostOneDelivery == delivered.again = {}

\* C37, amended: with every transport failure a TelegramError, a pair is
\* delivered a second time only when the marking of its post failed in the
\* store; a post that is marked is never fanned out again, a pair that was
\* delivered is retried only after such a failure, and the failures of a batch
\* are either retried at once or put in the deferred queue, never both.
C37_AtMostOneDeliveryWhenMarked ==
    [][ /\ \A pair \in delivered'.again : pair[1] \in delivered'.unmarked
        /\ (run.pc = "item" /\ run'.pc = "gather") =>
              ~RowOf(posts_table, run.batch[run.i]).posted
        /\ (run.pc \in {"retry", "deferred"} /\ run'.pc = "wait") =>
              (RetriedPair \in delivered.once => RetriedPair[1] \in delivered.unmarked)
        /\ run.pc = "decide" =>
              (deferred_retries' = deferred_retries \/ run'.pc = "idle") ]_vars

\* A post marked with no delivery in its fan-out, one of whose pairs the retry
\* loop or the deferred pass has delivered since, in a run without store failure.
C37_Witness ==
    /\ delivered.again = {}
    /\ delivered.unmarked = {}
    /\ \E pair \in delivered.once :
          /\ RowOf(posts_table, pair[1]).posted
          /\ RowOf(posts_table, pair[1]).successful_posts = 0

====
